---------------------------- MODULE Spec2Model ----------------------------
(***************************************************************************)
(* A model of doozip's archive codec and validation layer:                 *)
(*   entities.FileData / FileDetails / ArchiveInfo  (internal/entities)    *)
(*   archiveRepositoryImpl.GetArchiveInfo / CreateZipArchive               *)
(* and of its callers:                                                     *)
(*   archiveServiceImpl.GetArchiveInformation / CreateZipArchive           *)
(*   ArchiveHandler.GetInformation / CreateArchive                         *)
(*   the file type checks of the mail handler and the mail service         *)
(* of config.LoadConfig / validateConfig, of mail sending                  *)
(* (MailRepositoryImpl.SendMail, MailServiceImpl.SendMailWithTemplate),    *)
(* and, under SpecConcurrent, of several callers' calls of GetArchiveInfo  *)
(* and CreateZipArchive taking their steps in any order.                   *)
(*                                                                         *)
(* Strings that the code takes apart (file names, paths, extensions) are   *)
(* sequences of one-character strings; strings it only compares (MIME      *)
(* types, error values) are TLA+ strings.  A byte buffer holding a zip     *)
(* container is a sequence of tokens, one per zip structure (local file    *)
(* entry, central-directory header, end-of-central-directory record).      *)
(*                                                                         *)
(* An int64 is a record [hi, lo] standing for hi * 2^61 + lo, with         *)
(* hi \in -4..3 and 0 <= lo < 2^61: the top three bits and the low 61      *)
(* bits.  The model only ever adds values whose low parts are small, so    *)
(* the low parts never carry and the arithmetic below is exact two's       *)
(* complement arithmetic on those values.                                  *)
(***************************************************************************)
EXTENDS Integers, Sequences, FiniteSets, TLC

VARIABLES
    pc,         \* position of the one call in progress ("idle" between calls)
    \* ---- FileData.Validate called (repeatedly) on one *FileData
    rec,        \* the FileData behind the pointer
    recIn,      \* the FileData as it was handed in
    recFirst,   \* the FileData right after the first Validate returned
    vres,       \* the errors returned so far, oldest first
    writes,     \* how many times line 117 (f.MIMEType = mtype) has run
    \* ---- FileDetails.Validate called on one *FileDetails
    fdet,       \* the FileDetails behind the pointer
    fdetIn,     \* the FileDetails as it was handed in
    fdres,      \* the error returned
    \* ---- archiveRepositoryImpl.CreateZipArchive
    files,      \* the []*FileData argument (Validate writes through it)
    input,      \* the records as they were handed in
    bi,         \* loop index of the loop in progress
    buf,        \* the bytes.Buffer behind buf
    wdir,       \* zip.Writer.dir: the headers the writer has accepted
    wstate,     \* "none" (no writer yet), "open", "closed"
    closes,     \* how many times writer.Close() has run
    bret,       \* the call's first result: "none" (not returned), "nil", "buf"
    berr,       \* the call's second result
    \* ---- archiveRepositoryImpl.GetArchiveInfo
    file,       \* the multipart.File argument
    filename,   \* the filename argument
    reader,     \* zip.Reader.File once the reader exists
    ii,         \* loop index of processZipFiles
    info,       \* the *ArchiveInfo, or NoInfo before line 68
    seen,       \* how many directory records processZipFiles has looked at
    iret,       \* the call's first result: "none", "nil", "info"
    ierr,       \* the call's second result
    \* ---- the callers of the call in progress
    stack,      \* the calls waiting for it, innermost first
    \* ---- archiveServiceImpl
    sfiles,     \* CreateZipArchive's []*FileData argument
    sinput,     \* the list as it was handed in
    sname,      \* the archiveName / filename argument
    sfile,      \* GetArchiveInformation's multipart.File argument
    sret,       \* the call's first result: "none", "nil", "info", "file"
    sout,       \* the *FileData CreateZipArchive returns
    serr,       \* the call's second result
    \* ---- ArchiveHandler
    hreq,       \* the *http.Request
    hstatus,    \* the status written to the http.ResponseWriter, 0 before
    \* ---- the mail side's file type checks
    att,        \* the attachment: file name and MIME type
    mres,       \* the verdicts on it
    \* ---- config.LoadConfig
    csrc,       \* what the config file and the environment hold
    cfg,        \* the Config after viper.Unmarshal, NoConfig before
    cret,       \* the call's first result: "none", "nil", "config"
    cerr,       \* the call's second result
    \* ---- MailRepositoryImpl.SendMail and MailServiceImpl.SendMailWithTemplate
    rmail,      \* the repository call's arguments: to, subject, file
    rmerr,      \* the error the repository call returns
    sent,       \* how many times smtp.SendMail has been called
    smail,      \* the service call's arguments
    smerr,      \* the error the service call returns
    \* ---- MailHandler.SendMail
    mhreq,      \* the *http.Request
    mhstatus,   \* the status written to the http.ResponseWriter, 0 before
    \* ---- what calls running at the same time share, and each one's own
    allowed,    \* the package variable entities.AllowedMimeTypes
    logged,     \* how many records were written to the *slog.Logger
    procs,      \* per caller: the locals of its call in progress
    heap,       \* per address: the bytes.Buffer there, if one is in use
    \* ---- the host the process runs on
    mimeHost    \* where package mime found its table when it first loaded it

vars == << pc, rec, recIn, recFirst, vres, writes, fdet, fdetIn, fdres,
           files, input, bi, buf, wdir, wstate, closes, bret, berr,
           file, filename, reader, ii, info, seen, iret, ierr,
           stack, sfiles, sinput, sname, sfile, sret, sout, serr,
           hreq, hstatus, att, mres, csrc, cfg, cret, cerr,
           rmail, rmerr, sent, smail, smerr, allowed, logged, procs,
           heap, mimeHost, mhreq, mhstatus >>

fdVars == << rec, recIn, recFirst, vres, writes >>
fdetVars == << fdet, fdetIn, fdres >>
buildVars == << files, input, bi, buf, wdir, wstate, closes, bret, berr >>
inspectVars == << file, filename, reader, ii, info, seen, iret, ierr >>
svcVars == << sfiles, sinput, sname, sfile, sret, sout, serr >>
httpVars == << hreq, hstatus >>
mailVars == << att, mres >>
cfgVars == << csrc, cfg, cret, cerr >>
sendVars == << rmail, rmerr, sent, smail, smerr >>
\* the state of the packages beside the archive side
concVars == << allowed, logged, procs, heap >>
\* package mime's table: loaded once (sync.Once), never changed afterwards
hostVars == << mimeHost >>
mailHttpVars == << mhreq, mhstatus >>
extVars == << cfgVars, sendVars, concVars, hostVars, mailHttpVars >>
\* the archive side and the mail side's type checks
archiveSide == << fdVars, fdetVars, buildVars, inspectVars,
                 stack, svcVars, httpVars, mailVars >>
\* what a step of LoadConfig leaves alone, and what a step of mail sending
cfgOthers == << archiveSide, sendVars, concVars, hostVars, mailHttpVars >>
sendOthers == << fdVars, fdetVars, buildVars, inspectVars,
                svcVars, httpVars, mailVars, cfgVars, concVars, hostVars,
                mailHttpVars >>
\* what a step of MailHandler.SendMail leaves alone beside the mail service
mailHttpOthers == << fdVars, fdetVars, buildVars, inspectVars,
                    svcVars, httpVars, mailVars, cfgVars, concVars, hostVars >>
\* what a step of the repository or of a Validate leaves alone
outerVars == << stack, svcVars, httpVars, mailVars, extVars >>

-----------------------------------------------------------------------------
(* Bounds of the model.                                                    *)

\* longest record list handed to CreateZipArchive
MaxFiles == 3
\* most directory records in an uploaded container
MaxEntries == 3
\* most Validate calls on one *FileData
MaxValidations == 3

-----------------------------------------------------------------------------
(* int64                                                                   *)

I64(h, l) == [hi |-> h, lo |-> l]

\* the int64 of a length or other small non-negative number
Small(n) == I64(0, n)

\* two's complement wrap of the top three bits
WrapHi(h) == ((h + 4) % 8) - 4

\* x + y on int64 (wraps)
Add64(x, y) == I64(WrapHi(x.hi + y.hi), x.lo + y.lo)

\* x < 0 on int64
Neg64(x) == x.hi < 0

-----------------------------------------------------------------------------
(* path/filepath and mime, as the code uses them (Unix separators).        *)

RECURSIVE SplitFrom(_, _, _, _)
\* the elements of p between separators, from position i on; cur is the
\* element being read, acc the elements read so far
SplitFrom(p, i, cur, acc) ==
    IF i > Len(p) THEN Append(acc, cur)
    ELSE IF p[i] = "/" THEN SplitFrom(p, i + 1, <<>>, Append(acc, cur))
    ELSE SplitFrom(p, i + 1, Append(cur, p[i]), acc)

RECURSIVE CleanElems(_, _, _, _)
\* filepath.Clean's pass over the elements: empty and "." elements are
\* dropped, ".." removes the element before it, is dropped at the root and
\* is kept at the front of a relative path
CleanElems(segs, i, rooted, out) ==
    IF i > Len(segs) THEN out
    ELSE LET s == segs[i] IN
        IF s = <<>> \/ s = <<".">> THEN CleanElems(segs, i + 1, rooted, out)
        ELSE IF s = <<".", ".">> THEN
            IF Len(out) > 0 /\ out[Len(out)] # <<".", ".">>
                THEN CleanElems(segs, i + 1, rooted, SubSeq(out, 1, Len(out) - 1))
            ELSE IF rooted THEN CleanElems(segs, i + 1, rooted, out)
            ELSE CleanElems(segs, i + 1, rooted, Append(out, s))
        ELSE CleanElems(segs, i + 1, rooted, Append(out, s))

RECURSIVE JoinElems(_, _)
JoinElems(segs, i) ==
    IF i > Len(segs) THEN <<>>
    ELSE IF i = Len(segs) THEN segs[i]
    ELSE segs[i] \o <<"/">> \o JoinElems(segs, i + 1)

\* filepath.Clean(p)
Clean(p) ==
    IF p = <<>> THEN <<".">>
    ELSE LET rooted == p[1] = "/"
             body == JoinElems(CleanElems(SplitFrom(p, 1, <<>>, <<>>), 1, rooted, <<>>), 1)
         IN IF rooted THEN <<"/">> \o body
            ELSE IF body = <<>> THEN <<".">>
            ELSE body

RECURSIVE ExtFrom(_, _)
\* the loop of filepath.Ext: backwards from i to the last separator
ExtFrom(p, i) ==
    IF i = 0 \/ p[i] = "/" THEN <<>>
    ELSE IF p[i] = "." THEN SubSeq(p, i, Len(p))
    ELSE ExtFrom(p, i - 1)

\* filepath.Ext(p): the suffix from the last dot of the last element
Ext(p) == ExtFrom(p, Len(p))

UpperLetters == << "A", "B", "C", "D", "E", "F", "G", "H", "I", "J", "K", "L", "M",
                   "N", "O", "P", "Q", "R", "S", "T", "U", "V", "W", "X", "Y", "Z" >>
LowerLetters == << "a", "b", "c", "d", "e", "f", "g", "h", "i", "j", "k", "l", "m",
                   "n", "o", "p", "q", "r", "s", "t", "u", "v", "w", "x", "y", "z" >>

\* strings.ToLower on one ASCII character
LowerChar(c) ==
    IF \E i \in 1..26 : UpperLetters[i] = c
        THEN LowerLetters[CHOOSE i \in 1..26 : UpperLetters[i] = c]
        ELSE c

ToLower(s) == [i \in 1..Len(s) |-> LowerChar(s[i])]

DocxType == "application/vnd.openxmlformats-officedocument.wordprocessingml.document"

\* mime's built-in table (builtinTypesLower), the entries the model uses
BuiltinType(ext) ==
    CASE ext = <<".", "p", "d", "f">> -> "application/pdf"
      [] ext = <<".", "p", "n", "g">> -> "image/png"
      [] ext = <<".", "j", "p", "g">> -> "image/jpeg"
      [] ext = <<".", "x", "m", "l">> -> "text/xml; charset=utf-8"
      [] OTHER -> ""

\* Package mime fills its table the first time it is used: with the
\* built-in entries, and then on Unix from the shared-mime-info database
\* (/usr/share/mime/globs2) when that file is there, else from the
\* mime.types files (/etc/mime.types, ...); with neither, or on another
\* system, the built-in entries stay alone.
MimeHosts == {"builtin", "globs2", "mime.types"}

\* the entries of /usr/share/mime/globs2 for the extensions the model uses
Globs2Type(ext) ==
    CASE ext = <<".", "p", "d", "f">> -> "application/pdf"
      [] ext = <<".", "p", "n", "g">> -> "image/png"
      [] ext = <<".", "j", "p", "g">> -> "image/jpeg"
      [] ext = <<".", "x", "m", "l">> -> "application/xml"
      [] ext = <<".", "z", "z">> -> "application/zlib"
      [] ext = <<".", "d", "o", "c", "x">> -> DocxType
      [] ext = <<".", "z", "i", "p">> -> "application/zip"
      [] OTHER -> ""

\* the entries of /etc/mime.types for the extensions the model uses
MimeTypesFileType(ext) ==
    CASE ext = <<".", "p", "d", "f">> -> "application/pdf"
      [] ext = <<".", "p", "n", "g">> -> "image/png"
      [] ext = <<".", "j", "p", "g">> -> "image/jpeg"
      [] ext = <<".", "x", "m", "l">> -> "application/xml"
      [] ext = <<".", "d", "o", "c", "x">> -> DocxType
      [] ext = <<".", "z", "i", "p">> -> "application/zip"
      [] OTHER -> ""

\* the table of the host.  An entry of globs2 is skipped when the table
\* has the extension already (loadMimeGlobsFile), so the built-in entries
\* stay; an entry of a mime.types file replaces what the table has
\* (loadMimeFile).
TableType(host, ext) ==
    CASE host = "globs2" ->
            IF BuiltinType(ext) # "" THEN BuiltinType(ext) ELSE Globs2Type(ext)
      [] host = "mime.types" ->
            IF MimeTypesFileType(ext) # "" THEN MimeTypesFileType(ext)
            ELSE BuiltinType(ext)
      [] OTHER -> BuiltinType(ext)

\* mime.TypeByExtension(ext) on a given host: the extension as written,
\* then lower-cased
TypeByExtensionOn(host, ext) ==
    IF TableType(host, ext) # "" THEN TableType(host, ext)
    ELSE TableType(host, ToLower(ext))

\* mime.TypeByExtension(ext) in this process
TypeByExtension(ext) == TypeByExtensionOn(mimeHost, ext)

-----------------------------------------------------------------------------
(* internal/entities                                                       *)

\* FileData{Name, Content, MIMEType}
FileData(n, c, m) == [Name |-> n, Content |-> c, MIMEType |-> m]

\* FileDetails{FilePath, Size, MimeType}
FileDetails(p, s, m) == [FilePath |-> p, Size |-> s, MimeType |-> m]

\* FileDataValidate with the checks of lines 107 and 110 in the other order
FileDataValidateContentFirst(f) ==
    IF Len(f.Content) = 0 THEN
        [err |-> "ErrContentRequired", f |-> f, wrote |-> FALSE]
    ELSE IF f.Name = <<>> THEN
        [err |-> "ErrEmptyFilename", f |-> f, wrote |-> FALSE]
    ELSE IF f.MIMEType = "" THEN
        LET mtype == TypeByExtension(Ext(f.Name))
        IN IF mtype # "" THEN
               [err |-> "nil", f |-> [f EXCEPT !.MIMEType = mtype], wrote |-> TRUE]
           ELSE
               [err |-> "ErrInvalidMimeType", f |-> f, wrote |-> FALSE]
    ELSE
        [err |-> "nil", f |-> f, wrote |-> FALSE]

\* FileDataValidate without the condition of line 113: the type is derived
\* from the extension whenever the extension has one
FileDataValidateAlwaysDeriving(f) ==
    IF f.Name = <<>> THEN
        [err |-> "ErrEmptyFilename", f |-> f, wrote |-> FALSE]
    ELSE IF Len(f.Content) = 0 THEN
        [err |-> "ErrContentRequired", f |-> f, wrote |-> FALSE]
    ELSE
        LET mtype == TypeByExtension(Ext(f.Name))
        IN IF mtype # "" THEN
               [err |-> "nil", f |-> [f EXCEPT !.MIMEType = mtype], wrote |-> TRUE]
           ELSE IF f.MIMEType = "" THEN
               [err |-> "ErrInvalidMimeType", f |-> f, wrote |-> FALSE]
           ELSE
               [err |-> "nil", f |-> f, wrote |-> FALSE]

\* (f *FileData).Validate(): the error returned, the FileData behind f when
\* it returns, and whether line 117 ran
FileDataValidate(f) ==
    IF f.Name = <<>> THEN
        [err |-> "ErrEmptyFilename", f |-> f, wrote |-> FALSE]
    ELSE IF Len(f.Content) = 0 THEN
        [err |-> "ErrContentRequired", f |-> f, wrote |-> FALSE]
    ELSE IF f.MIMEType = "" THEN
        LET ext == Ext(f.Name)
            mtype == TypeByExtension(ext)
        IN IF mtype # "" THEN
               [err |-> "nil", f |-> [f EXCEPT !.MIMEType = mtype], wrote |-> TRUE]
           ELSE
               [err |-> "ErrInvalidMimeType", f |-> f, wrote |-> FALSE]
    ELSE
        [err |-> "nil", f |-> f, wrote |-> FALSE]

\* FileDetailsValidate with the checks of lines 84 and 87 in the other order
FileDetailsValidateTypeFirst(f) ==
    IF f.FilePath = <<>> THEN
        [err |-> "ErrFilepathRequired", f |-> f]
    ELSE IF f.MimeType = "" THEN
        [err |-> "ErrInvalidMimeType", f |-> f]
    ELSE IF Neg64(f.Size) THEN
        [err |-> "ErrInvalidFileSize: file size", f |-> f]
    ELSE
        [err |-> "nil", f |-> f]

\* (f *FileDetails).Validate(): the error returned and the FileDetails
\* behind f when it returns
FileDetailsValidate(f) ==
    IF f.FilePath = <<>> THEN
        [err |-> "ErrFilepathRequired", f |-> f]
    ELSE IF Neg64(f.Size) THEN
        [err |-> "ErrInvalidFileSize: file size", f |-> f]
    ELSE IF f.MimeType = "" THEN
        [err |-> "ErrInvalidMimeType", f |-> f]
    ELSE
        [err |-> "nil", f |-> f]

RECURSIVE SumSizes(_, _)
\* the loop of CalculateTotals over a.Files[i..]: totalSize += file.Size
SumSizes(fs, i) ==
    IF i > Len(fs) THEN Small(0)
    ELSE Add64(fs[i].Size, SumSizes(fs, i + 1))

\* (a *ArchiveInfo).CalculateTotals()
CalculateTotals(a) ==
    [a EXCEPT !.TotalSize = SumSizes(a.Files, 1),
              !.TotalFiles = Len(a.Files)]

RECURSIVE FirstBadDetail(_, _)
\* the loop of ArchiveInfo.Validate over a.Files[i..]: the first error
FirstBadDetail(fs, i) ==
    IF i > Len(fs) THEN "nil"
    ELSE IF FileDetailsValidate(fs[i]).err # "nil"
        THEN "invalid file detail: " \o FileDetailsValidate(fs[i]).err
    ELSE FirstBadDetail(fs, i + 1)

\* (a *ArchiveInfo).Validate(); TotalFiles is a uint, so line 48 never holds
ArchiveInfoValidate(a) ==
    IF a.Filename = <<>> THEN "ErrEmptyFilename"
    ELSE IF Neg64(a.ArchiveSize) THEN "ErrInvalidFileSize: archive size"
    ELSE IF Neg64(a.TotalSize) THEN "ErrInvalidFileSize: total size"
    ELSE IF a.TotalFiles < 0 THEN "ErrInvalidFileSize: total files"
    ELSE IF Len(a.Files) = 0 THEN "ErrEmptyFiles"
    ELSE FirstBadDetail(a.Files, 1)

-----------------------------------------------------------------------------
(* archive/zip, as far as the repository uses it.  A container is a        *)
(* sequence of tokens: local file entries, then the central directory's    *)
(* headers, then the end-of-central-directory record, which holds the      *)
(* number of headers, the size of the directory and the offset of its      *)
(* first header.  Size and offset are counted in tokens: the size is how   *)
(* many tokens before the end record the directory is said to take, the    *)
(* offset how many tokens are said to precede the first header.            *)

\* a local file entry: header, then the file's data
Local(n, d) == [kind |-> "local", name |-> n, data |-> d]

\* a central-directory header: name, uncompressed size as FileInfo().Size()
\* reports it, and whether the external attributes mark a directory
CDir(n, s, d) == [kind |-> "cdir", name |-> n, size |-> s, dir |-> d]

\* the end-of-central-directory record
EOCD(n, sz, off) == [kind |-> "eocd", records |-> n, size |-> sz, offset |-> off]

\* bytes that are no zip structure
Junk == [kind |-> "junk"]

\* n bytes of entries that the directory does not need read
Blob(n) == [kind |-> "blob", len |-> n]

\* whether name ends in a slash
HasSlashSuffix(n) == Len(n) > 0 /\ n[Len(n)] = "/"

\* archive/zip's lengths of the fixed parts, in bytes: local file header,
\* data descriptor, central-directory header, end record
fileHeaderLen == 30
dataDescriptorLen == 16
directoryHeaderLen == 46
directoryEndLen == 22

\* the zip64 extra field of a directory header whose size does not fit the
\* header's 32-bit field: 4 bytes of tag and length and the 8-byte size
\* (the low parts in the model are far below 2^32)
Zip64ExtraLen(size) == IF size.hi # 0 THEN 12 ELSE 0

\* len of compress/flate's output for data written to the entry and closed:
\* for data too short to hold a match, one fixed-Huffman block (3 bits of
\* block header, 8 bits per byte below 144, 7 bits of end-of-block), then
\* the final empty stored block (3 bits, padding, 4 bytes of lengths); for
\* no data the final block alone
DeflateLen(data) ==
    IF Len(data) = 0 THEN 5
    ELSE ((3 + 8 * Len(data) + 7 + 3 + 7) \div 8) + 4

\* len(content) of an upload, in bytes.  A local entry is one zip.Writer
\* wrote: header and name, then for a file the deflated data and the data
\* descriptor, for a directory entry nothing.  A directory header is the
\* fixed part, the name and, for a size of 2^32 and more, the zip64 extra.
RECURSIVE ByteLen(_)
ByteLen(raw) ==
    IF raw = <<>> THEN 0
    ELSE LET t == Head(raw) IN
        (CASE t.kind = "local" ->
                  fileHeaderLen + Len(t.name)
                  + (IF HasSlashSuffix(t.name) THEN 0
                     ELSE DeflateLen(t.data) + dataDescriptorLen)
           [] t.kind = "cdir" -> directoryHeaderLen + Len(t.name) + Zip64ExtraLen(t.size)
           [] t.kind = "eocd" -> directoryEndLen
           [] t.kind = "blob" -> t.len
           [] OTHER -> 1)
        + ByteLen(Tail(raw))

\* zip.NewWriter(buf) on a fresh buffer
NewWriter == [buf |-> <<>>, dir |-> <<>>]

\* (w *zip.Writer).Create(name): the header joins w.dir and the local header
\* is written; a name ending in a slash creates a directory entry
WriterCreate(w, n) ==
    [err |-> "nil",
     w |-> [buf |-> Append(w.buf, Local(n, <<>>)),
            dir |-> Append(w.dir, CDir(n, Small(0), FALSE))]]

\* Write(content) on the io.Writer Create returned, which is the last entry
\* of w: a directory entry takes no data
EntryWrite(w, content) ==
    LET k == Len(w.dir)
        n == w.dir[k].name
    IN IF HasSlashSuffix(n) THEN
           IF Len(content) = 0 THEN [err |-> "nil", w |-> w]
           ELSE [err |-> "zip: write to directory", w |-> w]
       ELSE
           [err |-> "nil",
            w |-> [buf |-> [w.buf EXCEPT ![Len(w.buf)] = Local(n, content)],
                   dir |-> [w.dir EXCEPT ![k] = CDir(n, Small(Len(content)), FALSE)]]]

\* WriterClose when the bytes are taken before the directory is written
WriterCloseNoDirectory(w) == [err |-> "nil", w |-> w]

\* (w *zip.Writer).Close(): the central directory and the end record follow
\* the entries
WriterClose(w) ==
    [err |-> "nil",
     w |-> [w EXCEPT !.buf = w.buf \o w.dir \o <<EOCD(Len(w.dir), Len(w.dir), Len(w.buf))>>]]

\* AddFileToZip storing the record's name as given, not cleaned
AddFileToZipRawName(w, f) ==
    LET c == WriterCreate(w, f.Name) IN
    IF c.err # "nil" THEN
        [err |-> "failed to create file in zip: " \o c.err, w |-> c.w]
    ELSE
        LET d == EntryWrite(c.w, f.Content) IN
        IF d.err # "nil" THEN
            [err |-> "failed to write file content: " \o d.err, w |-> d.w]
        ELSE
            [err |-> "nil", w |-> d.w]

\* addFileToZip(writer, file)
AddFileToZip(w, f) ==
    LET c == WriterCreate(w, Clean(f.Name)) IN
    IF c.err # "nil" THEN
        [err |-> "failed to create file in zip: " \o c.err, w |-> c.w]
    ELSE
        LET d == EntryWrite(c.w, f.Content) IN
        IF d.err # "nil" THEN
            [err |-> "failed to write file content: " \o d.err, w |-> d.w]
        ELSE
            [err |-> "nil", w |-> d.w]

RECURSIVE LastEnd(_, _)
\* readDirectoryEnd's search: the last end record at or before position i,
\* 0 if none
LastEnd(raw, i) ==
    IF i = 0 THEN 0
    ELSE IF raw[i].kind = "eocd" THEN i
    ELSE LastEnd(raw, i - 1)

\* whether readDirectoryHeader finds a directory header after the first
\* off tokens
HeaderAt(raw, off) == off < Len(raw) /\ raw[off + 1].kind = "cdir"

\* readDirectoryHeader's error after the first off tokens when no header is
\* there: nothing left to read, fewer bytes left than a header's fixed
\* part, or bytes that do not start with the header's signature
HeaderError(raw, off) ==
    IF off >= Len(raw) THEN "io.EOF"
    ELSE IF ByteLen(SubSeq(raw, off + 1, Len(raw))) < directoryHeaderLen
        THEN "io.ErrUnexpectedEOF"
    ELSE "zip.ErrFormat"

RECURSIVE ReadHeaders(_, _)
\* the loop of (r *zip.Reader).init: the directory headers after the first
\* off tokens, up to the first token that is none
ReadHeaders(raw, off) ==
    IF ~HeaderAt(raw, off) THEN <<>>
    ELSE <<raw[off + 1]>> \o ReadHeaders(raw, off + 1)

\* readDirectoryEnd's baseOffset: where the archive starts within the
\* bytes, by the end record's position, directory size and directory
\* offset; 0 all the same when a header is found at the directory offset
\* counted from the first byte
BaseOffset(raw, end) ==
    LET d == raw[end]
        byRecord == (end - 1) - d.size - d.offset
    IN IF byRecord > 0 /\ HeaderAt(raw, d.offset) THEN 0 ELSE byRecord

\* zip.NewReader(bytes.NewReader(content), len(content)): the error and
\* reader.File
ZipNewReader(raw) ==
    LET end == LastEnd(raw, Len(raw)) IN
    IF end = 0 THEN [err |-> "zip.ErrFormat", File |-> <<>>]
    ELSE LET d == raw[end]
             o == (end - 1) - d.size
         IN IF o < 0 \/ o >= Len(raw) THEN [err |-> "zip.ErrFormat", File |-> <<>>]
            ELSE LET start == BaseOffset(raw, end) + d.offset
                     hs == ReadHeaders(raw, start)
                     err == HeaderError(raw, start + Len(hs))
                 IN IF err = "io.EOF" \/ Len(hs) % 65536 # d.records % 65536
                        THEN [err |-> err, File |-> <<>>]
                    ELSE [err |-> "nil", File |-> hs]

\* f.FileInfo().IsDir(): by the external attributes or by a trailing slash
IsDir(h) == h.dir \/ HasSlashSuffix(h.name)

\* DetectMimeType without the fallback of lines 166-168
DetectMimeTypeNoFallback(n) == TypeByExtension(Ext(n))

\* detectMimeType(filename)
DetectMimeType(n) ==
    LET mimeType == TypeByExtension(Ext(n)) IN
    IF mimeType = "" THEN "application/octet-stream" ELSE mimeType

-----------------------------------------------------------------------------
(* The inputs the calls are tried on.                                      *)

NameReportPdf == <<"r", "e", "p", "o", "r", "t", ".", "p", "d", "f">>
NameUnknownExt == <<"x", ".", "u", "n", "k", "n", "o", "w", "n", "e", "x", "t">>
NameUpperPdf == <<"a", ".", "P", "D", "F">>
NameNoExt == <<"n">>
NameDotInDir == <<"d", ".", "p", "n", "g", "/", "f">>
NameRoot == <<"/">>
NameAPdf == <<"a", ".", "p", "d", "f">>
NameXZz == <<"x", ".", "z", "z">>
NameDotDot == <<"d", "/", ".", ".", "/", "b", ".", "p", "n", "g">>
NameDotN == <<".", "/", "n">>
NameDirD == <<"d", "/">>
NameE == <<"e">>
NameB == <<"b">>
NameUpY == <<"x", "/", ".", ".", "/", "y", ".", "p", "n", "g">>
NameZip == <<"z", ".", "z", "i", "p">>

\* the records FileData.Validate is tried on: every combination of
ValNames == {<<>>, NameReportPdf, NameUnknownExt, NameUpperPdf, NameNoExt,
             NameDotInDir, NameRoot}
ValContents == {<<>>, <<1>>, <<1, 2>>}
ValTypes == {"", "application/pdf", "text/plain"}
ValRecords == {FileData(n, c, m) : n \in ValNames, c \in ValContents, m \in ValTypes}

\* the descriptors FileDetails.Validate is tried on: every combination of
DetPaths == {<<>>, <<".">>, NameAPdf}
DetSizes == {Small(0), Small(2), I64(3, 0), I64(-4, 0), I64(-1, 5)}
DetTypes == {"", "application/pdf", "application/octet-stream"}
DetRecords == {FileDetails(p, s, m) : p \in DetPaths, s \in DetSizes, m \in DetTypes}

\* the records CreateZipArchive's lists are made of
BuildRecords ==
    { FileData(NameAPdf, <<1, 2>>, "application/pdf"),
      FileData(NameAPdf, <<1>>, ""),
      FileData(NameDotDot, <<1, 2>>, ""),
      FileData(<<>>, <<1>>, "application/pdf"),
      FileData(NameAPdf, <<>>, "application/pdf"),
      FileData(NameXZz, <<1>>, ""),
      FileData(NameRoot, <<1>>, "text/plain"),
      FileData(NameDotN, <<1>>, "text/plain") }

\* the lists of at most n elements of S
SeqsUpTo(S, n) == UNION {[1..k -> S] : k \in 0..n}

BuildLists == SeqsUpTo(BuildRecords, MaxFiles)

\* the directory records of uploaded containers: a file, a file declaring
\* 3 * 2^61 bytes, a file whose declared size reads as negative, a
\* directory by name, a directory by attributes, a file with no name, a
\* file under a path to clean
UploadEntries ==
    { CDir(NameAPdf, Small(2), FALSE),
      CDir(NameAPdf, I64(3, 0), FALSE),
      CDir(NameB, I64(-4, 0), FALSE),
      CDir(NameDirD, Small(0), FALSE),
      CDir(NameE, Small(0), TRUE),
      CDir(<<>>, Small(1), FALSE),
      CDir(NameUpY, Small(1), FALSE) }

\* well-formed containers: directory and end record (GetArchiveInfo reads
\* nothing else)
UploadContainers ==
    {hs \o <<EOCD(Len(hs), Len(hs), 0)>> : hs \in SeqsUpTo(UploadEntries, MaxEntries)}

\* uploads that are no container, and ones with bytes around the directory
UploadOthers ==
    { <<>>,
      <<Junk>>,
      <<Junk, Junk>>,
      <<CDir(NameAPdf, Small(2), FALSE)>>,
      <<CDir(NameAPdf, Small(2), FALSE), EOCD(2, 1, 0)>>,
      <<CDir(NameAPdf, Small(2), FALSE), EOCD(0, 1, 0)>>,
      <<CDir(NameAPdf, Small(2), FALSE), EOCD(1, 2, 0)>>,
      <<EOCD(0, 0, 1)>>,
      <<Junk, EOCD(0, 0, 0)>>,
      <<Junk, CDir(NameAPdf, Small(2), FALSE), EOCD(1, 1, 1), Junk>>,
      <<Junk, CDir(NameAPdf, Small(2), FALSE), EOCD(1, 1, 0)>>,
      <<CDir(NameB, Small(1), FALSE), CDir(NameAPdf, Small(2), FALSE), EOCD(1, 1, 0)>>,
      <<EOCD(0, 0, 0), CDir(NameAPdf, Small(2), FALSE)>> }

\* a multipart.File holding the bytes raw, a nil one, and one whose Read
\* fails (the interface is also met by a file spooled to disk)
UploadFile(raw) == [isNil |-> FALSE, bytes |-> raw, readFails |-> FALSE]
NilFile == [isNil |-> TRUE, bytes |-> <<>>, readFails |-> FALSE]
UnreadableFile == [isNil |-> FALSE, bytes |-> <<>>, readFails |-> TRUE]

Uploads ==
    {UploadFile(raw) : raw \in UploadContainers \cup UploadOthers}
    \cup {NilFile, UnreadableFile}

\* the filename arguments
Filenames == {<<>>, NameZip}

\* the error values of the repository
NoErr == [kind |-> "nil", name |-> <<>>, cause |-> "nil"]
Err(k, n, c) == [kind |-> k, name |-> n, cause |-> c]

\* an ArchiveInfo that does not exist yet
NoInfo == [Filename |-> <<>>, ArchiveSize |-> Small(0), TotalSize |-> Small(0),
           TotalFiles |-> 0, Files |-> <<>>]

-----------------------------------------------------------------------------
(* internal/services and internal/handlers: the archive service, the       *)
(* archive handler, and the file type checks of the mail side.             *)

\* entities.AllowedMimeTypes as lines 20-26 declare it
AllowedMimeTypes ==
    {DocxType, "application/xml", "image/jpeg", "image/png", "application/pdf"}

\* (f *FileData).IsAllowedMimeType(): a look into the package variable
IsAllowedMimeType(f) == f.MIMEType \in allowed

\* a nil *FileData in a []*FileData
NilRecord == [Name |-> <<>>, Content |-> <<>>, MIMEType |-> "<nil pointer>"]

RECURSIVE ValidateFilesFromNoGate(_, _)
\* ValidateFilesFrom without the check of IsAllowedMimeType
ValidateFilesFromNoGate(fs, i) ==
    IF i > Len(fs) THEN [err |-> NoErr, files |-> fs]
    ELSE IF fs[i] = NilRecord THEN
        [err |-> Err("file cannot be nil", <<>>, "nil"), files |-> fs]
    ELSE
        LET v == FileDataValidate(fs[i])
            gs == [fs EXCEPT ![i] = v.f]
        IN IF v.err # "nil" THEN
               [err |-> Err("invalid file", v.f.Name, v.err), files |-> gs]
           ELSE ValidateFilesFromNoGate(gs, i + 1)

RECURSIVE ValidateFilesFrom(_, _)
\* the loop of archiveServiceImpl.ValidateFiles from record i on: the error
\* and the list, through whose pointers Validate has written
ValidateFilesFrom(fs, i) ==
    IF i > Len(fs) THEN [err |-> NoErr, files |-> fs]
    ELSE IF fs[i] = NilRecord THEN
        [err |-> Err("file cannot be nil", <<>>, "nil"), files |-> fs]
    ELSE
        LET v == FileDataValidate(fs[i])
            gs == [fs EXCEPT ![i] = v.f]
        IN IF v.err # "nil" THEN
               [err |-> Err("invalid file", v.f.Name, v.err), files |-> gs]
           ELSE IF ~IsAllowedMimeType(v.f) THEN
               [err |-> Err("services.ErrInvalidMimeType", <<>>, v.f.MIMEType),
                files |-> gs]
           ELSE ValidateFilesFrom(gs, i + 1)

\* ValidateFiles without the check of the empty list
ValidateFilesAcceptingEmpty(fs) == ValidateFilesFrom(fs, 1)

\* archiveServiceImpl.ValidateFiles(files)
ValidateFiles(fs) ==
    IF Len(fs) = 0 THEN
        [err |-> Err("services.ErrEmptyFilesList", <<>>, "nil"), files |-> fs]
    ELSE ValidateFilesFrom(fs, 1)

\* the constants of the handlers package: 10 << 20, 50 << 20, "archive.zip"
maxFileSize == 10485760
maxTotalSize == 52428800
defaultFileName == <<"a", "r", "c", "h", "i", "v", "e", ".", "z", "i", "p">>

\* the name the service puts for an empty one: "archive.zip"
ServiceDefaultName == <<"a", "r", "c", "h", "i", "v", "e", ".", "z", "i", "p">>

\* net/http's status codes
StatusOK == 200
StatusBadRequest == 400
StatusInternalServerError == 500

\* a part of a multipart form that holds a file: the header's Filename and
\* Size, the bytes Open and io.ReadAll give, and which of the two fails
\* ("open", "read") if one does
PartOf(n, size, c, f) == [Filename |-> n, Size |-> size, Content |-> c, fault |-> f]
Part(n, size, c) == PartOf(n, size, c, "none")

\* the multipart.File that fileHeader.Open() gives for a part
OpenPart(p) == [isNil |-> FALSE, bytes |-> p.Content, readFails |-> p.fault = "read"]

\* a request: method, Content-Type header, whether the body fails to parse
\* as a multipart form, and the file parts under "file" and under "files[]"
Request(meth, ct, bad, one, many) ==
    [method |-> meth, ctype |-> ct, malformed |-> bad, file |-> one, files |-> many]
NoRequest == Request("", "", FALSE, <<>>, <<>>)

\* strings.HasPrefix(contentType, "multipart/form-data") on the headers the
\* model sends
HasMultipartPrefix(ct) ==
    ct \in {"multipart/form-data", "multipart/form-data; boundary=x"}

\* ArchiveHandler.validateRequest(r, "multipart/form-data")
ValidateRequest(r) ==
    IF r.method # "POST" THEN "method not allowed"
    ELSE IF ~HasMultipartPrefix(r.ctype) THEN "ErrInvalidContentType"
    ELSE "nil"

RECURSIVE ProcessUploadedFrom(_, _, _, _)
\* the loop of ArchiveHandler.processUploadedFiles from part i on, with
\* totalSize the sizes of the parts before it and acc the records made
ProcessUploadedFrom(parts, i, totalSize, acc) ==
    IF i > Len(parts) THEN [err |-> "nil", files |-> acc]
    ELSE
        LET t == totalSize + parts[i].Size IN
        IF t > maxTotalSize THEN [err |-> "ErrTotalSizeTooLarge", files |-> <<>>]
        ELSE IF parts[i].fault = "open" THEN [err |-> "failed to open file", files |-> <<>>]
        ELSE IF OpenPart(parts[i]).readFails
            THEN [err |-> "failed to read file", files |-> <<>>]
        ELSE
            LET fileData == FileData(parts[i].Filename, parts[i].Content,
                                     TypeByExtension(Ext(parts[i].Filename)))
                v == FileDataValidate(fileData)
            IN IF v.err # "nil" THEN [err |-> "invalid file", files |-> <<>>]
               ELSE ProcessUploadedFrom(parts, i + 1, t, Append(acc, v.f))

\* ArchiveHandler.processUploadedFiles(r)
ProcessUploadedFiles(r) ==
    IF Len(r.files) = 0 THEN [err |-> "ErrNoFiles", files |-> <<>>]
    ELSE ProcessUploadedFrom(r.files, 1, 0, <<>>)

\* the MIME types MailServiceImpl.ValidateFileType allows
MailAllowedTypes == {DocxType, "application/pdf"}

\* MailServiceImpl.ValidateFileType(mimeType)
MailServiceValidateFileType(mimeType) ==
    IF mimeType \notin MailAllowedTypes THEN "services.ErrInvalidMimeType"
    ELSE "nil"

\* MailHandler.validateFileType(filename)
MailHandlerValidateFileType(n) ==
    LET mimeType == TypeByExtension(Ext(n)) IN
    IF mimeType = ""
       \/ (mimeType # "application/pdf" /\ mimeType # DocxType)
    THEN "invalid file type"
    ELSE "nil"

-----------------------------------------------------------------------------
(* The inputs the service, the handler and the mail checks are tried on.   *)

NamePng == <<"b", ".", "p", "n", "g">>
NameXml == <<"c", ".", "x", "m", "l">>

\* what the model keeps of a part's n bytes: the first two
FirstBytes(n) == IF n = 0 THEN <<>> ELSE IF n = 1 THEN <<1>> ELSE <<1, 2>>

\* the parts of CreateArchive's requests: a small PDF; a PNG one byte over
\* maxFileSize; a PDF of maxFileSize; a file of a type only some hosts'
\* tables know; an empty PDF; a PNG of half maxTotalSize; an XML file; a
\* PDF that cannot be opened; a PDF that cannot be read
BuildParts ==
    { Part(NameAPdf, 2, FirstBytes(2)),
      Part(NamePng, maxFileSize + 1, FirstBytes(maxFileSize + 1)),
      Part(NameAPdf, maxFileSize, FirstBytes(maxFileSize)),
      Part(NameXZz, 1, FirstBytes(1)),
      Part(NameAPdf, 0, FirstBytes(0)),
      Part(NamePng, maxTotalSize \div 2, FirstBytes(maxTotalSize \div 2)),
      Part(NameXml, 1, FirstBytes(1)),
      PartOf(NameAPdf, 2, <<>>, "open"),
      PartOf(NameAPdf, 2, <<>>, "read") }

MultipartForm == "multipart/form-data; boundary=x"

BuildRequests ==
    {Request("POST", MultipartForm, FALSE, <<>>, ps) :
        ps \in SeqsUpTo(BuildParts, MaxFiles)}
    \cup { Request("GET", MultipartForm, FALSE, <<>>, <<Part(NameAPdf, 2, <<1, 2>>)>>),
           Request("POST", "application/json", FALSE, <<>>, <<>>),
           Request("POST", MultipartForm, TRUE, <<>>, <<>>) }

\* a container of n bytes with one file in its directory (46 + 5 bytes of
\* directory header, 22 of end record, the rest entries)
ContainerOfSize(n) ==
    <<Blob(n - 73), CDir(NameAPdf, Small(2), FALSE), EOCD(1, 1, 1)>>

\* the uploads of GetInformation's requests: a container of one file; no
\* bytes; bytes that are no container; a container of one directory; a
\* container one byte over maxFileSize; one of maxFileSize; an end record
\* alone, which says its directory starts behind it
InfoRaws ==
    { <<CDir(NameAPdf, Small(2), FALSE), EOCD(1, 1, 0)>>,
      <<>>,
      <<Junk, Junk>>,
      <<CDir(NameDirD, Small(0), FALSE), EOCD(1, 1, 0)>>,
      ContainerOfSize(maxFileSize + 1),
      ContainerOfSize(maxFileSize),
      <<EOCD(0, 0, 1)>> }

InfoRequests ==
    {Request("POST", MultipartForm, FALSE, <<Part(NameZip, ByteLen(raw), raw)>>, <<>>) :
        raw \in InfoRaws}
    \cup { Request("POST", MultipartForm, FALSE,
                   <<PartOf(NameZip, 73, <<>>, "open")>>, <<>>),
           Request("POST", MultipartForm, FALSE,
                   <<PartOf(NameZip, 73, <<>>, "read")>>, <<>>),
           Request("GET", MultipartForm, FALSE,
                   <<Part(NameZip, 1, <<Junk>>)>>, <<>>),
           Request("POST", "text/plain", FALSE, <<Part(NameZip, 1, <<Junk>>)>>, <<>>),
           Request("POST", MultipartForm, FALSE, <<>>, <<>>),
           Request("POST", MultipartForm, TRUE, <<>>, <<>>) }

\* the records of the lists the service's CreateZipArchive is called on: an
\* allowed one; one whose allowed type Validate derives; a well-formed one
\* of a type not allowed; one with no name; a nil pointer; an allowed one
\* that cannot be written; one whose type only some hosts' tables give
SvcRecords ==
    { FileData(NameAPdf, <<1, 2>>, "application/pdf"),
      FileData(NamePng, <<1>>, ""),
      FileData(NameNoExt, <<1>>, "text/plain"),
      FileData(<<>>, <<1>>, "application/pdf"),
      NilRecord,
      FileData(NameRoot, <<1>>, "image/png"),
      FileData(NameXZz, <<1>>, "") }

SvcLists == SeqsUpTo(SvcRecords, MaxFiles)

\* the archiveName arguments
ArchiveNames == {<<>>, NameZip}

\* the files the service's GetArchiveInformation is called on
SvcUploads == {UploadFile(raw) : raw \in InfoRaws} \cup {NilFile, UnreadableFile}

\* the attachments the mail side's checks are tried on
NameUpperPng == <<"b", ".", "P", "N", "G">>
AttNames == {NameAPdf, NamePng, NameXml, NameXZz, NameUpperPdf, NameUpperPng, NameNoExt}
AttTypes == {"", "application/pdf", DocxType, "image/png", "image/jpeg",
             "application/xml", "text/plain"}
Attachment(n, t) == [Filename |-> n, MIMEType |-> t]
Attachments == {Attachment(n, t) : n \in AttNames, t \in AttTypes}

NoAttachment == Attachment(<<>>, "")
NoVerdicts == [handler |-> "none", service |-> "none", archive |-> FALSE]

-----------------------------------------------------------------------------
(* package config.  A time.Duration is counted in seconds.                 *)

\* a key that neither the config file nor the environment sets
Unset == [set |-> FALSE, ok |-> TRUE, val |-> 0]
\* a key set to a value of the field's type
Set(v) == [set |-> TRUE, ok |-> TRUE, val |-> v]
\* a key set to text that does not decode into the field's type
Undecodable == [set |-> TRUE, ok |-> FALSE, val |-> 0]

\* the values setDefaults gives the keys
Defaults ==
    [name |-> "doozip", version |-> "1.0.0", environment |-> "development",
     host |-> "localhost", port |-> 8080,
     shutdown_timeout |-> 5, read_timeout |-> 5,
     write_timeout |-> 10, idle_timeout |-> 60]

\* viper's value of key k: the one set, else the default
Setting(src, k) == IF src.keys[k].set THEN src.keys[k].val ELSE Defaults[k]

\* viper.Unmarshal(&config): the Config, or an error when a key does not
\* decode; the SMTP credentials are those initializeViper took from the
\* environment, if it holds both
Unmarshal(src) ==
    IF \E k \in DOMAIN src.keys : ~src.keys[k].ok
        THEN [err |-> "failed to unmarshal config", config |-> <<>>]
    ELSE [err |-> "nil",
          config |->
            [App |-> [Name |-> Setting(src, "name"),
                      Version |-> Setting(src, "version")],
             Env |-> Setting(src, "environment"),
             Server |-> [Host |-> Setting(src, "host"),
                         Port |-> Setting(src, "port"),
                         ShutdownTimeout |-> Setting(src, "shutdown_timeout"),
                         ReadTimeout |-> Setting(src, "read_timeout"),
                         WriteTimeout |-> Setting(src, "write_timeout"),
                         IdleTimeout |-> Setting(src, "idle_timeout")],
             SMTP |-> [Username |-> IF src.smtpEnv THEN "user" ELSE "",
                       Password |-> IF src.smtpEnv THEN "secret" ELSE ""]]]

\* isValidEnvironment(env)
isValidEnvironment(env) == env \in {"development", "production"}

\* validateConfig with the idle timeout left out of the check of line 116
validateConfigThreeTimeouts(config) ==
    IF config.App.Name = "" THEN "app name is required"
    ELSE IF config.App.Version = "" THEN "app version is required"
    ELSE IF config.Server.Port < 1 \/ config.Server.Port > 65535
        THEN "invalid server port"
    ELSE IF ~isValidEnvironment(config.Env) THEN "invalid environment"
    ELSE IF \/ config.Server.ShutdownTimeout <= 0
            \/ config.Server.ReadTimeout <= 0
            \/ config.Server.WriteTimeout <= 0
        THEN "all server timeouts must be positive"
    ELSE "nil"

\* validateConfig(config): the error, "nil" for none
validateConfig(config) ==
    IF config.App.Name = "" THEN "app name is required"
    ELSE IF config.App.Version = "" THEN "app version is required"
    ELSE IF config.Server.Port < 1 \/ config.Server.Port > 65535
        THEN "invalid server port"
    ELSE IF ~isValidEnvironment(config.Env) THEN "invalid environment"
    ELSE IF \/ config.Server.ShutdownTimeout <= 0
            \/ config.Server.ReadTimeout <= 0
            \/ config.Server.WriteTimeout <= 0
            \/ config.Server.IdleTimeout <= 0
        THEN "all server timeouts must be positive"
    ELSE "nil"

\* no Config yet
NoConfig == <<>>
\* no config file looked at yet
NoSource == [file |-> "none", smtpEnv |-> FALSE, keys |-> <<>>]

\* what the config file and the environment set the keys to
TextSettings == {Unset, Set("")}
EnvSettings == {Unset, Set(""), Set("production"), Set("staging")}
PortSettings == {Unset, Undecodable, Set(0), Set(1), Set(65535), Set(65536)}
TimeoutSettings == {Unset, Set(0), Set(-1)}

\* a config file that is read, with the keys set by it or the environment
ReadableSources ==
    { [file |-> "read", smtpEnv |-> e,
       keys |-> [name |-> n, version |-> v, environment |-> en,
                 host |-> Unset, port |-> p,
                 shutdown_timeout |-> t1, read_timeout |-> t2,
                 write_timeout |-> t3, idle_timeout |-> t4]] :
        e \in BOOLEAN, n \in TextSettings, v \in TextSettings,
        en \in EnvSettings, p \in PortSettings,
        t1 \in TimeoutSettings, t2 \in TimeoutSettings,
        t3 \in TimeoutSettings, t4 \in TimeoutSettings }

\* no config file in ./config/, and one that is no YAML
UnreadableSources ==
    { [file |-> f, smtpEnv |-> FALSE, keys |-> <<>>] : f \in {"missing", "malformed"} }

ConfigSources == ReadableSources \cup UnreadableSources

-----------------------------------------------------------------------------
(* Mail sending: repositories.MailRepositoryImpl, services.MailServiceImpl *)

Lower == {"a", "b", "c", "d", "e", "f", "g", "h", "i", "j", "k", "l", "m",
          "n", "o", "p", "q", "r", "s", "t", "u", "v", "w", "x", "y", "z"}
Upper == {"A", "B", "C", "D", "E", "F", "G", "H", "I", "J", "K", "L", "M",
          "N", "O", "P", "Q", "R", "S", "T", "U", "V", "W", "X", "Y", "Z"}
Digit == {"0", "1", "2", "3", "4", "5", "6", "7", "8", "9"}

\* the character classes of emailRegex
LocalChars == Lower \cup Upper \cup Digit \cup {".", "_", "%", "+", "-"}
DomainChars == Lower \cup Upper \cup Digit \cup {".", "-"}
TldChars == Lower \cup Upper

\* every character of e[i..j] is in cs
AllIn(e, i, j, cs) == \A k \in i..j : e[k] \in cs

\* emailRegex.MatchString(e):
\* ^[a-zA-Z0-9._%+-]+@[a-zA-Z0-9.-]+\.[a-zA-Z]{2,}$
MatchEmail(e) ==
    \E a \in 2..Len(e) : \E d \in (a + 2)..(Len(e) - 2) :
        /\ e[a] = "@"
        /\ e[d] = "."
        /\ AllIn(e, 1, a - 1, LocalChars)
        /\ AllIn(e, a + 1, d - 1, DomainChars)
        /\ AllIn(e, d + 1, Len(e), TldChars)

RECURSIVE ValidateEmailsFrom(_, _)
\* the loop of validateEmails over emails[i..]
ValidateEmailsFrom(emails, i) ==
    IF i > Len(emails) THEN NoErr
    ELSE IF ~MatchEmail(emails[i])
        THEN Err("ErrInvalidRecipients", emails[i], "invalid email format")
    ELSE ValidateEmailsFrom(emails, i + 1)

\* validateEmails(emails)
validateEmails(emails) ==
    IF Len(emails) = 0
        THEN Err("ErrInvalidRecipients", <<>>, "no recipients provided")
    ELSE ValidateEmailsFrom(emails, 1)

\* SendMailChecks with the subject looked at before the recipients
SendMailChecksSubjectFirst(to, subject, f) ==
    IF subject = "" THEN [err |-> Err("ErrInvalidSubject", <<>>, "nil"), file |-> f]
    ELSE IF validateEmails(to) # NoErr THEN [err |-> validateEmails(to), file |-> f]
    ELSE IF f = NilRecord
        THEN [err |-> Err("ErrInvalidFile", <<>>, "file is nil"), file |-> f]
    ELSE LET v == FileDataValidate(f) IN
        IF v.err # "nil"
            THEN [err |-> Err("ErrInvalidFile", <<>>, v.err), file |-> v.f]
        ELSE [err |-> NoErr, file |-> v.f]

\* lines 188-199 of MailRepositoryImpl.SendMail: the error of the first
\* check that fails, and the FileData behind file afterwards
SendMailChecks(to, subject, f) ==
    IF validateEmails(to) # NoErr THEN [err |-> validateEmails(to), file |-> f]
    ELSE IF subject = "" THEN [err |-> Err("ErrInvalidSubject", <<>>, "nil"), file |-> f]
    ELSE IF f = NilRecord
        THEN [err |-> Err("ErrInvalidFile", <<>>, "file is nil"), file |-> f]
    ELSE LET v == FileDataValidate(f) IN
        IF v.err # "nil"
            THEN [err |-> Err("ErrInvalidFile", <<>>, v.err), file |-> v.f]
        ELSE [err |-> NoErr, file |-> v.f]

\* MailServiceImpl.validateInput(to, filename, mimeType, fileContent)
validateInput(to, fname, mimeType, fileContent) ==
    IF Len(to) = 0 THEN Err("services.ErrNoRecipients", <<>>, "nil")
    ELSE IF fname = <<>>
        THEN Err("services.ErrInvalidFile", <<>>, "filename is required")
    ELSE IF Len(fileContent) = 0
        THEN Err("services.ErrInvalidFile", <<>>, "file content is empty")
    ELSE IF MailServiceValidateFileType(mimeType) # "nil"
        THEN Err(MailServiceValidateFileType(mimeType), <<>>, mimeType)
    ELSE NoErr

\* MailServiceImpl.createFileData(filename, mimeType, fileContent)
createFileData(fname, mimeType, fileContent) ==
    LET v == FileDataValidate(FileData(fname, fileContent, mimeType)) IN
    IF v.err # "nil"
        THEN [err |-> Err("services.ErrInvalidFile", <<>>, v.err), file |-> NilRecord]
    ELSE [err |-> NoErr, file |-> v.f]

\* the arguments of a repository call and of a service call
Mail(to, subject, f) == [to |-> to, subject |-> subject, file |-> f]
ServiceMail(to, fname, mimeType, fileContent, subject) ==
    [to |-> to, filename |-> fname, mimeType |-> mimeType,
     content |-> fileContent, subject |-> subject]
NoMail == Mail(<<>>, "", NilRecord)
NoServiceMail == ServiceMail(<<>>, <<>>, "", <<>>, "")

\* most recipients of one mail
MaxRecipients == 2

AddrOk == <<"a", "@", "b", ".", "c", "o">>
AddrDots == <<"x", ".", "y", "@", "d", "-", "e", ".", "o", "r", "g">>
AddrShortTld == <<"a", "@", "b", ".", "c">>
AddrNoAt == <<"a", "b", ".", "c", "o">>
AddrNoLocal == <<"@", "b", ".", "c", "o">>
AddrSpace == <<"a", " ", "@", "b", ".", "c", "o">>
Addresses == {AddrOk, AddrDots, AddrShortTld, AddrNoAt, AddrNoLocal, AddrSpace}

RecipientLists == SeqsUpTo(Addresses, MaxRecipients)
Subjects == {"", "File Attachment"}

\* the files handed to the repository
MailFiles ==
    { NilRecord,
      FileData(NameAPdf, <<1, 2>>, "application/pdf"),
      FileData(NamePng, <<1>>, ""),
      FileData(NameAPdf, <<>>, "application/pdf"),
      FileData(NameXZz, <<1>>, "") }

\* the arguments of the repository calls and of the service calls
Mails == {Mail(to, s, f) : to \in RecipientLists, s \in Subjects, f \in MailFiles}
ServiceMails ==
    { ServiceMail(to, n, t, c, s) :
        to \in {<<>>, <<AddrOk>>, <<AddrOk, AddrNoAt>>},
        n \in {<<>>, NameAPdf},
        t \in {"", "application/pdf", DocxType, "image/png"},
        c \in {<<>>, <<1>>},
        s \in Subjects }

RECURSIVE SplitComma(_, _, _, _)
\* strings.Split(s, ","), from position i on; cur is the element being
\* read, acc the elements read so far
SplitComma(s, i, cur, acc) ==
    IF i > Len(s) THEN Append(acc, cur)
    ELSE IF s[i] = "," THEN SplitComma(s, i + 1, <<>>, Append(acc, cur))
    ELSE SplitComma(s, i + 1, Append(cur, s[i]), acc)

\* MailHandler.getMailList(emails)
getMailList(emails) ==
    IF emails = <<>> THEN <<>> ELSE SplitComma(emails, 1, <<>>, <<>>)

\* MailHandler.readFileContent(file, size): one Read into a buffer of size
\* bytes.  A file held in memory answers a Read at its end, and so any Read
\* of an empty file, with io.EOF.
readFileContent(f, size) ==
    IF f.readFails THEN [err |-> "read error", content |-> <<>>]
    ELSE IF Len(f.bytes) = 0 THEN [err |-> "io.EOF", content |-> <<>>]
    ELSE [err |-> "nil", content |-> f.bytes]

\* the subject MailServiceImpl.SendMail passes on
DefaultSubject == "File Attachment"

\* a request to the mail endpoint: Content-Type header, whether the body
\* fails to parse as a multipart form, the file parts under "file" and the
\* form value "emails"
MailRequest(ct, bad, one, emails) ==
    [ctype |-> ct, malformed |-> bad, file |-> one, emails |-> emails]
NoMailRequest == MailRequest("", FALSE, <<>>, <<>>)

\* r.ParseMultipartForm on the requests of the model: the body is read as
\* a multipart form when the header says it is one and it is well-formed
ParseMultipartFormFails(r) ==
    r.ctype # "multipart/form-data; boundary=x" \/ r.malformed

NameDocx == <<"l", ".", "d", "o", "c", "x">>

\* the attachments of the mail requests: a PDF; an empty PDF; a PNG; an
\* office document; a PDF named in upper case; a PDF that cannot be
\* opened; a PDF that cannot be read
MailParts ==
    { Part(NameAPdf, 2, <<1, 2>>),
      Part(NameAPdf, 0, <<>>),
      Part(NamePng, 1, <<1>>),
      Part(NameDocx, 1, <<1>>),
      Part(NameUpperPdf, 1, <<1>>),
      PartOf(NameAPdf, 2, <<>>, "open"),
      PartOf(NameAPdf, 2, <<>>, "read") }

\* the "emails" values: none; one address; a good and a bad one; two good
\* ones; a comma alone
EmailsValues ==
    { <<>>,
      AddrOk,
      AddrOk \o <<",">> \o AddrNoAt,
      AddrOk \o <<",">> \o AddrDots,
      <<",">> }

MailRequests ==
    {MailRequest("multipart/form-data; boundary=x", FALSE, <<p>>, e) :
        p \in MailParts, e \in EmailsValues}
    \cup { MailRequest("multipart/form-data; boundary=x", FALSE, <<>>, AddrOk),
           MailRequest("multipart/form-data; boundary=x", TRUE, <<>>, <<>>),
           MailRequest("application/json", FALSE, <<>>, <<>>) }

-----------------------------------------------------------------------------
(* Calls running at the same time.  Each caller runs one call, the         *)
(* repository's GetArchiveInfo or the service's CreateZipArchive, on       *)
(* arguments of its own; the calls' locals are records, one per caller.    *)
(* The buffers that CreateZipArchive makes live in the memory all callers  *)
(* share: a local holds a buffer's address, the bytes are at the address.  *)

\* how many callers there are
NumCallers == 2
Callers == 1..NumCallers

\* the addresses a buffer may be at, and the address of none
Addrs == 1..NumCallers
NilAddr == 0

\* an address in use by nothing, and one holding a buffer of the bytes b
FreeCell == [live |-> FALSE, bytes |-> <<>>]
BufferCell(b) == [live |-> TRUE, bytes |-> b]

\* the memory with no buffer in it
EmptyHeap == [a \in Addrs |-> FreeCell]

\* the locals of no call
IdleCall ==
    [op |-> "none", pc |-> "idle", args |-> <<>>,
     files |-> <<>>, bi |-> 0, buf |-> NilAddr, wdir |-> <<>>, name |-> <<>>,
     file |-> NilFile, reader |-> <<>>, ii |-> 0, info |-> NoInfo,
     ret |-> "none", err |-> NoErr]

-----------------------------------------------------------------------------
(* The state between calls.                                                *)

Init ==
    /\ pc = "idle"
    /\ mimeHost \in MimeHosts
    /\ mhreq = NoMailRequest
    /\ mhstatus = 0
    /\ rec = FileData(<<>>, <<>>, "")
    /\ recIn = FileData(<<>>, <<>>, "")
    /\ recFirst = FileData(<<>>, <<>>, "")
    /\ vres = <<>>
    /\ writes = 0
    /\ fdet = FileDetails(<<>>, Small(0), "")
    /\ fdetIn = FileDetails(<<>>, Small(0), "")
    /\ fdres = "none"
    /\ files = <<>>
    /\ input = <<>>
    /\ bi = 0
    /\ buf = <<>>
    /\ wdir = <<>>
    /\ wstate = "none"
    /\ closes = 0
    /\ bret = "none"
    /\ berr = NoErr
    /\ file = NilFile
    /\ filename = <<>>
    /\ reader = <<>>
    /\ ii = 0
    /\ info = NoInfo
    /\ seen = 0
    /\ iret = "none"
    /\ ierr = NoErr
    /\ stack = <<>>
    /\ sfiles = <<>>
    /\ sinput = <<>>
    /\ sname = <<>>
    /\ sfile = NilFile
    /\ sret = "none"
    /\ sout = FileData(<<>>, <<>>, "")
    /\ serr = NoErr
    /\ hreq = NoRequest
    /\ hstatus = 0
    /\ att = NoAttachment
    /\ mres = NoVerdicts
    /\ csrc = NoSource
    /\ cfg = NoConfig
    /\ cret = "none"
    /\ cerr = NoErr
    /\ rmail = NoMail
    /\ rmerr = NoErr
    /\ sent = 0
    /\ smail = NoServiceMail
    /\ smerr = NoErr
    /\ allowed = AllowedMimeTypes
    /\ heap = EmptyHeap
    /\ logged = 0
    /\ procs = [p \in Callers |-> IdleCall]

-----------------------------------------------------------------------------
(* FileData.Validate on one record, as often as its holders call it.       *)

\* a caller takes hold of a *FileData
FDCall ==
    /\ pc = "idle"
    /\ \E r \in ValRecords :
        /\ rec' = r
        /\ recIn' = r
        /\ recFirst' = r
    /\ pc' = "fd"
    /\ UNCHANGED << vres, writes, fdetVars, buildVars, inspectVars,
                    outerVars >>

\* one call of rec.Validate()
FDValidate ==
    /\ pc = "fd"
    /\ Len(vres) < MaxValidations
    /\ LET v == FileDataValidate(rec) IN
        /\ rec' = v.f
        /\ vres' = Append(vres, v.err)
        /\ writes' = IF v.wrote THEN writes + 1 ELSE writes
        /\ recFirst' = IF vres = <<>> THEN v.f ELSE recFirst
    /\ UNCHANGED << pc, recIn, fdetVars, buildVars, inspectVars, outerVars >>

(* FileDetails.Validate on one descriptor.                                 *)

FDetCall ==
    /\ pc = "idle"
    /\ \E d \in DetRecords :
        /\ fdet' = d
        /\ fdetIn' = d
    /\ pc' = "fdet"
    /\ UNCHANGED << fdres, fdVars, buildVars, inspectVars, outerVars >>

\* fdet.Validate()
FDetValidate ==
    /\ pc = "fdet"
    /\ LET v == FileDetailsValidate(fdet) IN
        /\ fdet' = v.f
        /\ fdres' = v.err
    /\ pc' = "fdet_done"
    /\ UNCHANGED << fdetIn, fdVars, buildVars, inspectVars, outerVars >>

-----------------------------------------------------------------------------
(* archiveRepositoryImpl.CreateZipArchive(files)                           *)

\* the call is made; the pointers of the list are non-nil and distinct
BuildCall ==
    /\ pc = "idle"
    /\ \E fs \in BuildLists :
        /\ files' = fs
        /\ input' = fs
    /\ pc' = "b_start"
    /\ UNCHANGED << bi, buf, wdir, wstate, closes, bret, berr,
                    fdVars, fdetVars, inspectVars, outerVars >>

\* lines 118-120: an empty list is refused
BuildCheckEmpty ==
    /\ pc = "b_start"
    /\ IF Len(files) = 0
          THEN /\ bret' = "nil"
               /\ berr' = Err("ErrEmptyFilesList", <<>>, "nil")
               /\ pc' = "b_failed"
               /\ bi' = bi
          ELSE /\ pc' = "b_validate"
               /\ bi' = 1
               /\ UNCHANGED << bret, berr >>
    /\ UNCHANGED << files, input, buf, wdir, wstate, closes,
                    fdVars, fdetVars, inspectVars, outerVars >>

\* BuildValidate with the inspector's policy: an invalid record is skipped
BuildValidateSkipping ==
    /\ pc = "b_validate"
    /\ LET v == FileDataValidate(files[bi]) IN
        /\ files' = [files EXCEPT ![bi] = v.f]
        /\ pc' = IF bi = Len(files) THEN "b_open" ELSE "b_validate"
        /\ bi' = IF bi = Len(files) THEN 1 ELSE bi + 1
    /\ UNCHANGED << input, buf, wdir, wstate, closes, bret, berr,
                    fdVars, fdetVars, inspectVars, outerVars >>

\* lines 123-127, one iteration: files[bi].Validate()
BuildValidate ==
    /\ pc = "b_validate"
    /\ LET v == FileDataValidate(files[bi]) IN
        /\ files' = [files EXCEPT ![bi] = v.f]
        /\ IF v.err # "nil"
              THEN /\ bret' = "nil"
                   /\ berr' = Err("invalid file", v.f.Name, v.err)
                   /\ pc' = "b_failed"
                   /\ bi' = bi
              ELSE /\ pc' = IF bi = Len(files) THEN "b_open" ELSE "b_validate"
                   /\ bi' = IF bi = Len(files) THEN 1 ELSE bi + 1
                   /\ UNCHANGED << bret, berr >>
    /\ UNCHANGED << input, buf, wdir, wstate, closes,
                    fdVars, fdetVars, inspectVars, outerVars >>

\* lines 129-138: the buffer, the writer, and the deferred Close
BuildOpen ==
    /\ pc = "b_open"
    /\ buf' = NewWriter.buf
    /\ wdir' = NewWriter.dir
    /\ wstate' = "open"
    /\ pc' = "b_write"
    /\ UNCHANGED << files, input, bi, closes, bret, berr,
                    fdVars, fdetVars, inspectVars, outerVars >>

\* BuildWrite when Close is not deferred but called before the last return
\* only: a failed addFileToZip returns at once
BuildWriteClosingOnSuccessOnly ==
    /\ pc = "b_write"
    /\ LET a == AddFileToZip([buf |-> buf, dir |-> wdir], files[bi]) IN
        /\ buf' = a.w.buf
        /\ wdir' = a.w.dir
        /\ IF a.err # "nil"
              THEN /\ bret' = "nil"
                   /\ berr' = Err("failed to add file", files[bi].Name, a.err)
                   /\ pc' = "b_failed"
                   /\ bi' = bi
              ELSE IF bi = Len(files)
              THEN /\ bret' = "buf"
                   /\ berr' = NoErr
                   /\ pc' = "b_defer"
                   /\ bi' = bi
              ELSE /\ pc' = "b_write"
                   /\ bi' = bi + 1
                   /\ UNCHANGED << bret, berr >>
    /\ UNCHANGED << files, input, wstate, closes, fdVars, fdetVars, inspectVars,
                    outerVars >>

\* lines 140-146, one iteration: addFileToZip(writer, files[bi]); after the
\* last one the results are buf and nil
BuildWrite ==
    /\ pc = "b_write"
    /\ LET a == AddFileToZip([buf |-> buf, dir |-> wdir], files[bi]) IN
        /\ buf' = a.w.buf
        /\ wdir' = a.w.dir
        /\ IF a.err # "nil"
              THEN /\ bret' = "nil"
                   /\ berr' = Err("failed to add file", files[bi].Name, a.err)
                   /\ pc' = "b_defer"
                   /\ bi' = bi
              ELSE IF bi = Len(files)
              THEN /\ bret' = "buf"
                   /\ berr' = NoErr
                   /\ pc' = "b_defer"
                   /\ bi' = bi
              ELSE /\ pc' = "b_write"
                   /\ bi' = bi + 1
                   /\ UNCHANGED << bret, berr >>
    /\ UNCHANGED << files, input, wstate, closes, fdVars, fdetVars, inspectVars,
                    outerVars >>

\* lines 131-138, run as the function returns: writer.Close(), whose error
\* is logged; then the caller has the results
BuildDeferredClose ==
    /\ pc = "b_defer"
    /\ LET c == WriterClose([buf |-> buf, dir |-> wdir]) IN
        /\ buf' = c.w.buf
        /\ wdir' = c.w.dir
    /\ wstate' = "closed"
    /\ closes' = closes + 1
    /\ pc' = IF bret = "buf" THEN "b_done" ELSE "b_failed"
    /\ UNCHANGED << files, input, bi, bret, berr, fdVars, fdetVars, inspectVars,
                    outerVars >>

-----------------------------------------------------------------------------
(* archiveRepositoryImpl.GetArchiveInfo(file, filename)                    *)

\* the call is made on an upload
InspectCall ==
    /\ pc = "idle"
    /\ \E f \in Uploads, n \in Filenames :
        /\ file' = f
        /\ filename' = n
    /\ pc' = "i_start"
    /\ UNCHANGED << reader, ii, info, seen, iret, ierr,
                    fdVars, fdetVars, buildVars, outerVars >>

\* the call is made on the bytes CreateZipArchive has just returned
InspectBuilt ==
    /\ pc = "b_done"
    /\ stack = <<>>
    /\ \E n \in Filenames :
        /\ file' = UploadFile(buf)
        /\ filename' = n
    /\ pc' = "i_start"
    /\ UNCHANGED << reader, ii, info, seen, iret, ierr,
                    fdVars, fdetVars, buildVars, outerVars >>

\* InspectRead without the check of line 55
InspectReadNoLengthCheck ==
    /\ pc = "i_start"
    /\ IF file.isNil
          THEN /\ iret' = "nil"
               /\ ierr' = Err("ErrEmptyFile", <<>>, "nil")
               /\ pc' = "i_failed"
          ELSE IF file.readFails
          THEN /\ iret' = "nil"
               /\ ierr' = Err("failed to read file", <<>>, "read error")
               /\ pc' = "i_failed"
          ELSE /\ pc' = "i_parse"
               /\ UNCHANGED << iret, ierr >>
    /\ UNCHANGED << file, filename, reader, ii, info, seen,
                    fdVars, fdetVars, buildVars, outerVars >>

\* lines 42-57: a nil file is refused, io.ReadAll's error is logged and
\* returned, and an empty file is refused
InspectRead ==
    /\ pc = "i_start"
    /\ IF file.isNil
          THEN /\ iret' = "nil"
               /\ ierr' = Err("ErrEmptyFile", <<>>, "nil")
               /\ pc' = "i_failed"
          ELSE IF file.readFails
          THEN /\ iret' = "nil"
               /\ ierr' = Err("failed to read file", <<>>, "read error")
               /\ pc' = "i_failed"
          ELSE IF Len(file.bytes) = 0
          THEN /\ iret' = "nil"
               /\ ierr' = Err("ErrEmptyFile", <<>>, "nil")
               /\ pc' = "i_failed"
          ELSE /\ pc' = "i_parse"
               /\ UNCHANGED << iret, ierr >>
    /\ UNCHANGED << file, filename, reader, ii, info, seen,
                    fdVars, fdetVars, buildVars, outerVars >>

\* InspectParse with the reader's error logged and not returned
InspectParseIgnoringError ==
    /\ pc = "i_parse"
    /\ reader' = ZipNewReader(file.bytes).File
    /\ info' = [Filename |-> filename,
                ArchiveSize |-> Small(ByteLen(file.bytes)),
                TotalSize |-> Small(0),
                TotalFiles |-> 0,
                Files |-> <<>>]
    /\ ii' = 1
    /\ pc' = "i_walk"
    /\ UNCHANGED << file, filename, seen, iret, ierr, fdVars, fdetVars, buildVars,
                    outerVars >>

\* lines 59-72: the zip reader, then the ArchiveInfo
InspectParse ==
    /\ pc = "i_parse"
    /\ LET z == ZipNewReader(file.bytes) IN
        IF z.err # "nil"
          THEN /\ iret' = "nil"
               /\ ierr' = Err("ErrInvalidZip", <<>>, "nil")
               /\ pc' = "i_failed"
               /\ UNCHANGED << reader, ii, info >>
          ELSE /\ reader' = z.File
               /\ info' = [Filename |-> filename,
                           ArchiveSize |-> Small(ByteLen(file.bytes)),
                           TotalSize |-> Small(0),
                           TotalFiles |-> 0,
                           Files |-> <<>>]
               /\ ii' = 1
               /\ pc' = "i_walk"
               /\ UNCHANGED << iret, ierr >>
    /\ UNCHANGED << file, filename, seen, fdVars, fdetVars, buildVars,
                    outerVars >>

\* ProcessZipFile without the check of line 90
ProcessZipFileKeepingDirs(fs, h) ==
    LET fileDetails == FileDetails(Clean(h.name), h.size, DetectMimeType(h.name))
    IN IF FileDetailsValidate(fileDetails).err # "nil" THEN fs
       ELSE Append(fs, fileDetails)

\* what one iteration of processZipFiles does to archiveInfo.Files for the
\* directory record h
ProcessZipFile(fs, h) ==
    IF IsDir(h) THEN fs
    ELSE LET fileDetails == FileDetails(Clean(h.name), h.size, DetectMimeType(h.name))
         IN IF FileDetailsValidate(fileDetails).err # "nil" THEN fs
            ELSE Append(fs, fileDetails)

\* InspectWalk when a record's validation error is returned, not logged
InspectWalkPropagating ==
    /\ pc = "i_walk"
    /\ IF ii > Len(reader)
          THEN /\ pc' = "i_totals"
               /\ UNCHANGED << ii, info, seen, iret, ierr >>
          ELSE LET h == reader[ii]
                   v == FileDetailsValidate(
                            FileDetails(Clean(h.name), h.size, DetectMimeType(h.name)))
               IN IF ~IsDir(h) /\ v.err # "nil"
                     THEN /\ iret' = "nil"
                          /\ ierr' = Err("invalid file details", h.name, v.err)
                          /\ pc' = "i_failed"
                          /\ UNCHANGED << ii, info, seen >>
                     ELSE /\ info' = [info EXCEPT
                                        !.Files = ProcessZipFile(info.Files, h)]
                          /\ ii' = ii + 1
                          /\ seen' = seen + 1
                          /\ pc' = pc
                          /\ UNCHANGED << iret, ierr >>
    /\ UNCHANGED << file, filename, reader, fdVars, fdetVars, buildVars,
                    outerVars >>

\* lines 89-109, one iteration; line 111 after the last
InspectWalk ==
    /\ pc = "i_walk"
    /\ IF ii > Len(reader)
          THEN /\ pc' = "i_totals"
               /\ UNCHANGED << ii, info, seen >>
          ELSE /\ info' = [info EXCEPT !.Files = ProcessZipFile(info.Files, reader[ii])]
               /\ ii' = ii + 1
               /\ seen' = seen + 1
               /\ pc' = pc
    /\ UNCHANGED << file, filename, reader, iret, ierr, fdVars, fdetVars, buildVars,
                    outerVars >>

\* line 78: archiveInfo.CalculateTotals()
InspectTotals ==
    /\ pc = "i_totals"
    /\ info' = CalculateTotals(info)
    /\ pc' = "i_validate"
    /\ UNCHANGED << file, filename, reader, ii, seen, iret, ierr,
                    fdVars, fdetVars, buildVars, outerVars >>

\* InspectValidate returning the ArchiveInfo without archiveInfo.Validate()
InspectValidateSkipped ==
    /\ pc = "i_validate"
    /\ iret' = "info"
    /\ ierr' = NoErr
    /\ pc' = "i_done"
    /\ UNCHANGED << file, filename, reader, ii, info, seen,
                    fdVars, fdetVars, buildVars, outerVars >>

\* lines 80-84: archiveInfo.Validate(), then the results
InspectValidate ==
    /\ pc = "i_validate"
    /\ LET e == ArchiveInfoValidate(info) IN
        IF e # "nil"
          THEN /\ iret' = "nil"
               /\ ierr' = Err("invalid archive info", <<>>, e)
               /\ pc' = "i_failed"
          ELSE /\ iret' = "info"
               /\ ierr' = NoErr
               /\ pc' = "i_done"
    /\ UNCHANGED << file, filename, reader, ii, info, seen,
                    fdVars, fdetVars, buildVars, outerVars >>

-----------------------------------------------------------------------------

(* archiveServiceImpl.CreateZipArchive(files, archiveName)                 *)

\* the call is made
ServiceCreateCall ==
    /\ pc = "idle"
    /\ \E fs \in SvcLists, n \in ArchiveNames :
        /\ sfiles' = fs
        /\ sinput' = fs
        /\ sname' = n
    /\ pc' = "sb_start"
    /\ UNCHANGED << stack, sfile, sret, sout, serr, httpVars, mailVars,
                    extVars, fdVars, fdetVars, buildVars, inspectVars >>

\* lines 81-89: ValidateFiles, the default name, and the call of the
\* repository's CreateZipArchive on the same pointers
ServiceCreateAdmit ==
    /\ pc = "sb_start"
    /\ LET v == ValidateFiles(sfiles) IN
        /\ sfiles' = v.files
        /\ IF v.err # NoErr
              THEN /\ sret' = "nil"
                   /\ serr' = v.err
                   /\ pc' = "s_failed"
                   /\ UNCHANGED << sname, stack, files, input >>
              ELSE /\ sname' = IF sname = <<>> THEN ServiceDefaultName ELSE sname
                   /\ files' = v.files
                   /\ input' = v.files
                   /\ stack' = <<"sb_wait">> \o stack
                   /\ pc' = "b_start"
                   /\ UNCHANGED << sret, serr >>
    /\ UNCHANGED << sinput, sfile, sout, httpVars, mailVars, extVars, fdVars, fdetVars,
                    bi, buf, wdir, wstate, closes, bret, berr, inspectVars >>

\* lines 90-109: the repository's error is wrapped; its buffer becomes the
\* content of a FileData of type application/zip, which is validated
ServiceCreateReturn ==
    /\ pc \in {"b_done", "b_failed"}
    /\ stack # <<>> /\ Head(stack) = "sb_wait"
    /\ stack' = Tail(stack)
    /\ IF pc = "b_failed"
          THEN /\ sret' = "nil"
               /\ serr' = Err("failed to create zip archive", berr.name, berr.kind)
               /\ pc' = "s_failed"
               /\ sout' = sout
          ELSE LET archiveFile == FileData(sname, buf, "application/zip")
                   v == FileDataValidate(archiveFile)
               IN IF v.err # "nil"
                     THEN /\ sret' = "nil"
                          /\ serr' = Err("invalid archive file", sname, v.err)
                          /\ pc' = "s_failed"
                          /\ sout' = sout
                     ELSE /\ sret' = "file"
                          /\ serr' = NoErr
                          /\ pc' = "s_done"
                          /\ sout' = v.f
    /\ UNCHANGED << sfiles, sinput, sname, sfile, httpVars, mailVars,
                    extVars, fdVars, fdetVars, buildVars, inspectVars >>

(* archiveServiceImpl.GetArchiveInformation(file, filename)                *)

\* the call is made
ServiceInfoCall ==
    /\ pc = "idle"
    /\ \E f \in SvcUploads, n \in Filenames :
        /\ sfile' = f
        /\ sname' = n
    /\ pc' = "si_start"
    /\ UNCHANGED << stack, sfiles, sinput, sret, sout, serr, httpVars, mailVars,
                    extVars, fdVars, fdetVars, buildVars, inspectVars >>

\* lines 53-61: a nil file is refused, an empty filename replaced, and the
\* repository's GetArchiveInfo called
ServiceInfoStart ==
    /\ pc = "si_start"
    /\ IF sfile.isNil
          THEN /\ sret' = "nil"
               /\ serr' = Err("services.ErrNilFile", <<>>, "nil")
               /\ pc' = "s_failed"
               /\ UNCHANGED << sname, stack, file, filename >>
          ELSE /\ sname' = IF sname = <<>> THEN ServiceDefaultName ELSE sname
               /\ file' = sfile
               /\ filename' = sname'
               /\ stack' = <<"si_wait">> \o stack
               /\ pc' = "i_start"
               /\ UNCHANGED << sret, serr >>
    /\ UNCHANGED << sfiles, sinput, sfile, sout, httpVars, mailVars,
                    extVars, fdVars, fdetVars, buildVars,
                    reader, ii, info, seen, iret, ierr >>

\* lines 62-74: ErrInvalidZip becomes ErrInvalidArchiveZip, any other error
\* is wrapped, the inventory is passed on
ServiceInfoReturn ==
    /\ pc \in {"i_done", "i_failed"}
    /\ stack # <<>> /\ Head(stack) = "si_wait"
    /\ stack' = Tail(stack)
    /\ IF pc = "i_failed"
          THEN /\ sret' = "nil"
               /\ serr' = IF ierr.kind = "ErrInvalidZip"
                             THEN Err("services.ErrInvalidArchiveZip", <<>>, "nil")
                             ELSE Err("failed to get archive info", <<>>, ierr.kind)
               /\ pc' = "s_failed"
          ELSE /\ sret' = "info"
               /\ serr' = NoErr
               /\ pc' = "s_done"
    /\ UNCHANGED << sfiles, sinput, sname, sfile, sout, httpVars, mailVars,
                    extVars, fdVars, fdetVars, buildVars, inspectVars >>

-----------------------------------------------------------------------------
(* ArchiveHandler.CreateArchive(w, r)                                      *)

\* a request arrives
CreateArchiveRequest ==
    /\ pc = "idle"
    /\ \E r \in BuildRequests : hreq' = r
    /\ pc' = "hb_start"
    /\ UNCHANGED << hstatus, stack, svcVars, mailVars,
                    extVars, fdVars, fdetVars, buildVars, inspectVars >>

\* lines 127-148: validateRequest, ParseMultipartForm, processUploadedFiles,
\* each answering 400 on its error; then the service's CreateZipArchive is
\* called on the records, under defaultFileName
CreateArchiveProcess ==
    /\ pc = "hb_start"
    /\ LET p == ProcessUploadedFiles(hreq) IN
        IF ValidateRequest(hreq) # "nil" \/ hreq.malformed \/ p.err # "nil"
          THEN /\ hstatus' = StatusBadRequest
               /\ pc' = "h_done"
               /\ UNCHANGED << stack, sfiles, sinput, sname >>
          ELSE /\ sfiles' = p.files
               /\ sinput' = p.files
               /\ sname' = defaultFileName
               /\ stack' = <<"hb_wait">> \o stack
               /\ pc' = "sb_start"
               /\ hstatus' = hstatus
    /\ UNCHANGED << hreq, sfile, sret, sout, serr, mailVars,
                    extVars, fdVars, fdetVars, buildVars, inspectVars >>

\* lines 148-158: 500 on the service's error, else the file is written
CreateArchiveRespond ==
    /\ pc \in {"s_done", "s_failed"}
    /\ stack # <<>> /\ Head(stack) = "hb_wait"
    /\ stack' = Tail(stack)
    /\ hstatus' = IF pc = "s_failed" THEN StatusInternalServerError ELSE StatusOK
    /\ pc' = "h_done"
    /\ UNCHANGED << hreq, svcVars, mailVars,
                    extVars, fdVars, fdetVars, buildVars, inspectVars >>

(* ArchiveHandler.GetInformation(w, r)                                     *)

\* a request arrives
GetInformationRequest ==
    /\ pc = "idle"
    /\ \E r \in InfoRequests : hreq' = r
    /\ pc' = "hi_start"
    /\ UNCHANGED << hstatus, stack, svcVars, mailVars,
                    extVars, fdVars, fdetVars, buildVars, inspectVars >>

\* lines 85-106: validateRequest, FormFile("file"), the check of header.Size
\* against maxFileSize, each answering 400; then the service's
\* GetArchiveInformation is called on the file and header.Filename
GetInformationProcess ==
    /\ pc = "hi_start"
    /\ IF \/ ValidateRequest(hreq) # "nil"
          \/ hreq.malformed
          \/ Len(hreq.file) = 0
          \/ hreq.file[1].fault = "open"
          \/ hreq.file[1].Size > maxFileSize
          THEN /\ hstatus' = StatusBadRequest
               /\ pc' = "h_done"
               /\ UNCHANGED << stack, sfile, sname >>
          ELSE /\ sfile' = OpenPart(hreq.file[1])
               /\ sname' = hreq.file[1].Filename
               /\ stack' = <<"hi_wait">> \o stack
               /\ pc' = "si_start"
               /\ hstatus' = hstatus
    /\ UNCHANGED << hreq, sfiles, sinput, sret, sout, serr, mailVars,
                    extVars, fdVars, fdetVars, buildVars, inspectVars >>

\* lines 107-120: 500 on the service's error, else 200 and the inventory
GetInformationRespond ==
    /\ pc \in {"s_done", "s_failed"}
    /\ stack # <<>> /\ Head(stack) = "hi_wait"
    /\ stack' = Tail(stack)
    /\ hstatus' = IF pc = "s_failed" THEN StatusInternalServerError ELSE StatusOK
    /\ pc' = "h_done"
    /\ UNCHANGED << hreq, svcVars, mailVars,
                    extVars, fdVars, fdetVars, buildVars, inspectVars >>

(* The mail side's checks of an attachment's type.                         *)

\* an attachment is to be sent
MailTypeCall ==
    /\ pc = "idle"
    /\ \E a \in Attachments : att' = a
    /\ pc' = "m_start"
    /\ UNCHANGED << mres, stack, svcVars, httpVars,
                    extVars, fdVars, fdetVars, buildVars, inspectVars >>

\* MailHandler.validateFileType on the name, MailServiceImpl.ValidateFileType
\* on the type, and what FileData.IsAllowedMimeType says of the type
MailTypeCheck ==
    /\ pc = "m_start"
    /\ mres' = [handler |-> MailHandlerValidateFileType(att.Filename),
                service |-> MailServiceValidateFileType(att.MIMEType),
                archive |-> IsAllowedMimeType(FileData(att.Filename, <<1>>, att.MIMEType))]
    /\ pc' = "m_done"
    /\ UNCHANGED << att, stack, svcVars, httpVars,
                    extVars, fdVars, fdetVars, buildVars, inspectVars >>

-----------------------------------------------------------------------------
(* config.LoadConfig()                                                     *)

\* the call is made with some config file and environment in place
LoadConfigCall ==
    /\ pc = "idle"
    /\ \E src \in ConfigSources : csrc' = src
    /\ pc' = "c_start"
    /\ UNCHANGED << cfg, cret, cerr, cfgOthers >>

\* lines 42-44: initializeViper, which fails when viper.ReadInConfig does
LoadConfigInitialize ==
    /\ pc = "c_start"
    /\ IF csrc.file # "read"
          THEN /\ cret' = "nil"
               /\ cerr' = Err("failed to initialize viper", <<>>,
                              "error reading config file")
               /\ pc' = "c_failed"
          ELSE /\ pc' = "c_unmarshal"
               /\ UNCHANGED << cret, cerr >>
    /\ UNCHANGED << csrc, cfg, cfgOthers >>

\* lines 47-50: viper.Unmarshal(&config)
LoadConfigUnmarshal ==
    /\ pc = "c_unmarshal"
    /\ LET u == Unmarshal(csrc) IN
        IF u.err # "nil"
          THEN /\ cret' = "nil"
               /\ cerr' = Err(u.err, <<>>, "nil")
               /\ pc' = "c_failed"
               /\ cfg' = cfg
          ELSE /\ cfg' = u.config
               /\ pc' = "c_validate"
               /\ UNCHANGED << cret, cerr >>
    /\ UNCHANGED << csrc, cfgOthers >>

\* lines 53-57: validateConfig(&config), then the results
LoadConfigValidate ==
    /\ pc = "c_validate"
    /\ LET e == validateConfig(cfg) IN
        IF e # "nil"
          THEN /\ cret' = "nil"
               /\ cerr' = Err("config validation error", <<>>, e)
               /\ pc' = "c_failed"
          ELSE /\ cret' = "config"
               /\ cerr' = NoErr
               /\ pc' = "c_done"
    /\ UNCHANGED << csrc, cfg, cfgOthers >>

-----------------------------------------------------------------------------
(* MailRepositoryImpl.SendMail(to, subject, body, file)                    *)

\* the call is made
MailSendCall ==
    /\ pc = "idle"
    /\ \E ml \in Mails : rmail' = ml
    /\ pc' = "r_start"
    /\ UNCHANGED << rmerr, sent, smail, smerr, stack, sendOthers >>

\* lines 188-199: the recipients, the subject, the file
MailSendValidate ==
    /\ pc = "r_start"
    /\ LET c == SendMailChecks(rmail.to, rmail.subject, rmail.file) IN
        /\ rmail' = [rmail EXCEPT !.file = c.file]
        /\ IF c.err # NoErr
              THEN /\ rmerr' = c.err
                   /\ pc' = "r_failed"
              ELSE /\ rmerr' = rmerr
                   /\ pc' = "r_transmit"
    /\ UNCHANGED << sent, smail, smerr, stack, sendOthers >>

\* lines 202-219: the message is put together in a bytes.Buffer, which
\* cannot fail, and handed to smtp.SendMail, which succeeds or not
MailSendTransmit ==
    /\ pc = "r_transmit"
    /\ sent' = sent + 1
    /\ \E delivered \in BOOLEAN :
        IF delivered
          THEN /\ rmerr' = NoErr
               /\ pc' = "r_done"
          ELSE /\ rmerr' = Err("ErrSMTPSendFailed", <<>>, "smtp.SendMail")
               /\ pc' = "r_failed"
    /\ UNCHANGED << rmail, smail, smerr, stack, sendOthers >>

(* MailServiceImpl.SendMailWithTemplate(to, filename, mimeType,            *)
(*                                      fileContent, subject, bodyTemplate) *)

\* the call is made
MailServiceCall ==
    /\ pc = "idle"
    /\ \E ml \in ServiceMails : smail' = ml
    /\ pc' = "ms_start"
    /\ UNCHANGED << rmail, rmerr, sent, smerr, stack, sendOthers >>

\* validateInput, createFileData, and the call of the repository's SendMail
MailServiceValidate ==
    /\ pc = "ms_start"
    /\ LET e == validateInput(smail.to, smail.filename, smail.mimeType, smail.content)
           c == createFileData(smail.filename, smail.mimeType, smail.content)
       IN IF e # NoErr
             THEN /\ smerr' = e
                  /\ pc' = "ms_failed"
                  /\ UNCHANGED << rmail, stack >>
          ELSE IF c.err # NoErr
             THEN /\ smerr' = c.err
                  /\ pc' = "ms_failed"
                  /\ UNCHANGED << rmail, stack >>
          ELSE /\ rmail' = Mail(smail.to, smail.subject, c.file)
               /\ stack' = <<"ms_wait">> \o stack
               /\ pc' = "r_start"
               /\ smerr' = smerr
    /\ UNCHANGED << rmerr, sent, smail, sendOthers >>

\* the repository's error is wrapped in ErrMailSendFailed
MailServiceReturn ==
    /\ pc \in {"r_done", "r_failed"}
    /\ stack # <<>> /\ Head(stack) = "ms_wait"
    /\ stack' = Tail(stack)
    /\ IF rmerr # NoErr
          THEN /\ smerr' = Err("services.ErrMailSendFailed", <<>>, rmerr.kind)
               /\ pc' = "ms_failed"
          ELSE /\ smerr' = NoErr
               /\ pc' = "ms_done"
    /\ UNCHANGED << rmail, rmerr, sent, smail, sendOthers >>

(* MailHandler.SendMail(w, r)                                              *)

\* a request arrives
MailHandlerRequest ==
    /\ pc = "idle"
    /\ \E r \in MailRequests : mhreq' = r
    /\ pc' = "mh_start"
    /\ UNCHANGED << mhstatus, sendVars, stack, mailHttpOthers >>

\* lines 61-95: ParseMultipartForm, FormFile("file"), validateFileType and
\* getMailList, each answering 400; readFileContent, answering 500; then
\* the service's SendMail is called with the type mime gives for the name
MailHandlerProcess ==
    /\ pc = "mh_start"
    /\ IF \/ ParseMultipartFormFails(mhreq)
          \/ Len(mhreq.file) = 0
          \/ mhreq.file[1].fault = "open"
          \/ MailHandlerValidateFileType(mhreq.file[1].Filename) # "nil"
          \/ Len(getMailList(mhreq.emails)) = 0
          THEN /\ mhstatus' = StatusBadRequest
               /\ pc' = "mh_done"
               /\ UNCHANGED << smail, stack >>
          ELSE LET fileHeader == mhreq.file[1]
                   c == readFileContent(OpenPart(fileHeader), fileHeader.Size)
               IN IF c.err # "nil"
                     THEN /\ mhstatus' = StatusInternalServerError
                          /\ pc' = "mh_done"
                          /\ UNCHANGED << smail, stack >>
                     ELSE /\ smail' = ServiceMail(getMailList(mhreq.emails),
                                                  fileHeader.Filename,
                                                  TypeByExtension(Ext(fileHeader.Filename)),
                                                  c.content, DefaultSubject)
                          /\ stack' = <<"mh_wait">> \o stack
                          /\ pc' = "ms_start"
                          /\ mhstatus' = mhstatus
    /\ UNCHANGED << mhreq, rmail, rmerr, sent, smerr, mailHttpOthers >>

\* lines 94-100: 500 on the service's error, else 200
MailHandlerRespond ==
    /\ pc \in {"ms_done", "ms_failed"}
    /\ stack # <<>> /\ Head(stack) = "mh_wait"
    /\ stack' = Tail(stack)
    /\ mhstatus' = IF pc = "ms_failed" THEN StatusInternalServerError ELSE StatusOK
    /\ pc' = "mh_done"
    /\ UNCHANGED << mhreq, sendVars, mailHttpOthers >>

-----------------------------------------------------------------------------
(* The calls of the callers, step by step.                                 *)

\* the locals as GetArchiveInfo(f, n) starts
InspectOf(f, n) ==
    [IdleCall EXCEPT !.op = "inspect", !.pc = "i_start",
                     !.args = [op |-> "inspect", file |-> f, files |-> <<>>, name |-> n],
                     !.file = f, !.name = n]

\* the locals as the service's CreateZipArchive(fs, n) starts
CreateOf(fs, n) ==
    [IdleCall EXCEPT !.op = "create", !.pc = "sb_start",
                     !.args = [op |-> "create", file |-> NilFile, files |-> fs, name |-> n],
                     !.files = fs, !.name = n]

\* the call has returned
Returned(l) == l.pc \in {"done", "failed"}

\* the locals with the call returned with the error e
Failing(l, e) == [l EXCEPT !.ret = "nil", !.err = e, !.pc = "failed"]

\* one step of GetArchiveInfo on the locals l (lines 42-84)
InspectStepOf(l) ==
    CASE l.pc = "i_start" ->
            IF l.file.isNil THEN Failing(l, Err("ErrEmptyFile", <<>>, "nil"))
            ELSE IF l.file.readFails
                THEN Failing(l, Err("failed to read file", <<>>, "read error"))
            ELSE IF Len(l.file.bytes) = 0
                THEN Failing(l, Err("ErrEmptyFile", <<>>, "nil"))
            ELSE [l EXCEPT !.pc = "i_parse"]
      [] l.pc = "i_parse" ->
            LET z == ZipNewReader(l.file.bytes) IN
            IF z.err # "nil" THEN Failing(l, Err("ErrInvalidZip", <<>>, "nil"))
            ELSE [l EXCEPT !.reader = z.File,
                           !.info = [Filename |-> l.name,
                                     ArchiveSize |-> Small(ByteLen(l.file.bytes)),
                                     TotalSize |-> Small(0),
                                     TotalFiles |-> 0,
                                     Files |-> <<>>],
                           !.ii = 1,
                           !.pc = "i_walk"]
      [] l.pc = "i_walk" ->
            IF l.ii > Len(l.reader) THEN [l EXCEPT !.pc = "i_totals"]
            ELSE [l EXCEPT !.info.Files = ProcessZipFile(l.info.Files, l.reader[l.ii]),
                           !.ii = l.ii + 1]
      [] l.pc = "i_totals" ->
            [l EXCEPT !.info = CalculateTotals(l.info), !.pc = "i_validate"]
      [] l.pc = "i_validate" ->
            LET e == ArchiveInfoValidate(l.info) IN
            IF e # "nil" THEN Failing(l, Err("invalid archive info", <<>>, e))
            ELSE [l EXCEPT !.ret = "info", !.pc = "done"]

\* NewBuffer when the repository keeps one buffer and every call writes
\* its archive into that
NewBufferOfRepository(h) == 1

\* new(bytes.Buffer) (line 129): the address of memory in use by nothing
NewBuffer(h) ==
    CHOOSE a \in Addrs :
        /\ ~h[a].live
        /\ \A b \in Addrs : ~h[b].live => a <= b

\* the locals l of a step and the memory h it leaves
Step(l, h) == [l |-> l, heap |-> h]

\* one step of the service's CreateZipArchive on the locals l and the
\* memory h, the repository's CreateZipArchive (lines 118-146) within it
CreateStepOf(l, h) ==
    CASE l.pc = "sb_start" ->
            LET v == ValidateFiles(l.files) IN
            IF v.err # NoErr THEN Step(Failing([l EXCEPT !.files = v.files], v.err), h)
            ELSE Step([l EXCEPT !.files = v.files,
                                !.name = IF l.name = <<>> THEN ServiceDefaultName
                                         ELSE l.name,
                                !.pc = "b_start"], h)
      [] l.pc = "b_start" ->
            IF Len(l.files) = 0
                THEN Step([l EXCEPT !.err = Err("ErrEmptyFilesList", <<>>, "nil"),
                                    !.pc = "b_failed"], h)
            ELSE Step([l EXCEPT !.bi = 1, !.pc = "b_validate"], h)
      [] l.pc = "b_validate" ->
            LET v == FileDataValidate(l.files[l.bi]) IN
            IF v.err # "nil"
                THEN Step([l EXCEPT !.files[l.bi] = v.f,
                                    !.err = Err("invalid file", v.f.Name, v.err),
                                    !.pc = "b_failed"], h)
            ELSE Step([l EXCEPT !.files[l.bi] = v.f,
                                !.bi = IF l.bi = Len(l.files) THEN 1 ELSE l.bi + 1,
                                !.pc = IF l.bi = Len(l.files) THEN "b_open"
                                       ELSE "b_validate"], h)
      [] l.pc = "b_open" ->
            LET a == NewBuffer(h) IN
            Step([l EXCEPT !.buf = a, !.wdir = NewWriter.dir, !.pc = "b_write"],
                 [h EXCEPT ![a] = BufferCell(NewWriter.buf)])
      [] l.pc = "b_write" ->
            LET a == AddFileToZip([buf |-> h[l.buf].bytes, dir |-> l.wdir],
                                  l.files[l.bi])
                h2 == [h EXCEPT ![l.buf].bytes = a.w.buf]
            IN
            IF a.err # "nil"
                THEN Step([l EXCEPT !.wdir = a.w.dir,
                                    !.err = Err("failed to add file",
                                                l.files[l.bi].Name, a.err),
                                    !.pc = "b_defer"], h2)
            ELSE IF l.bi = Len(l.files)
                THEN Step([l EXCEPT !.wdir = a.w.dir, !.pc = "b_defer"], h2)
            ELSE Step([l EXCEPT !.wdir = a.w.dir, !.bi = l.bi + 1], h2)
      [] l.pc = "b_defer" ->
            LET c == WriterClose([buf |-> h[l.buf].bytes, dir |-> l.wdir]) IN
            Step([l EXCEPT !.wdir = c.w.dir,
                           !.pc = IF l.err = NoErr THEN "b_done" ELSE "b_failed"],
                 [h EXCEPT ![l.buf].bytes = c.w.buf])
      [] l.pc = "b_failed" ->
            Step(Failing(l, Err("failed to create zip archive", l.err.name, l.err.kind)),
                 h)
      [] l.pc = "b_done" ->
            LET v == FileDataValidate(FileData(l.name, h[l.buf].bytes,
                                               "application/zip")) IN
            IF v.err # "nil"
                THEN Step(Failing(l, Err("invalid archive file", l.name, v.err)), h)
            ELSE Step([l EXCEPT !.ret = "file", !.pc = "done"], h)

\* one step of the call whose locals are l, in the memory h
CallStepOf(l, h) ==
    IF l.op = "inspect" THEN Step(InspectStepOf(l), h) ELSE CreateStepOf(l, h)

\* how many records that step writes to the logger: io.ReadAll's error,
\* the zip reader's error, a record of the archive skipped, a type not
\* allowed, the repository's error
StepLogs(l) ==
    IF \/ l.pc = "i_start" /\ ~l.file.isNil /\ l.file.readFails
       \/ l.pc = "i_parse" /\ ZipNewReader(l.file.bytes).err # "nil"
       \/ /\ l.pc = "i_walk" /\ l.ii <= Len(l.reader)
          /\ ~IsDir(l.reader[l.ii])
          /\ ProcessZipFile(<<>>, l.reader[l.ii]) = <<>>
       \/ l.pc = "sb_start" /\ ValidateFiles(l.files).err.kind = "services.ErrInvalidMimeType"
       \/ l.pc = "b_failed"
    THEN 1 ELSE 0

\* what the caller of a returned call has: the error, or the inventory,
\* or the archive file with the bytes of the buffer
ResultOf(l, h) ==
    [ret |-> l.ret, err |-> l.err, info |-> l.info,
     file |-> IF l.ret = "file"
                 THEN FileData(l.name, h[l.buf].bytes, "application/zip")
              ELSE FileData(<<>>, <<>>, "")]

RECURSIVE RunAlone(_, _)
\* what the call whose locals are l returns when, from the memory h on, it
\* runs to its return with no other call taking a step
RunAlone(l, h) ==
    IF Returned(l) THEN ResultOf(l, h)
    ELSE LET s == CallStepOf(l, h) IN RunAlone(s.l, s.heap)

\* the calls the callers make, and the most records the log may hold when
\* a call starts
ConcUploads ==
    { UploadFile(<<CDir(NameAPdf, Small(2), FALSE), CDir(NameB, I64(-4, 0), FALSE),
                   EOCD(2, 2, 0)>>),
      UploadFile(<<Junk>>),
      UnreadableFile }
ConcLists ==
    { <<FileData(NameAPdf, <<1, 2>>, "application/pdf")>>,
      <<FileData(NamePng, <<1>>, ""), FileData(NameRoot, <<1>>, "image/png")>>,
      <<FileData(NameNoExt, <<1>>, "text/plain")>> }
ConcCalls ==
    {InspectOf(f, NameZip) : f \in ConcUploads}
        \cup {CreateOf(fs, <<>>) : fs \in ConcLists}
MaxLogged == 2

\* a caller starts a call
ConcCall(p) ==
    /\ procs[p].pc = "idle"
    /\ logged < MaxLogged
    /\ \E c \in ConcCalls : procs' = [procs EXCEPT ![p] = c]
    /\ UNCHANGED << allowed, logged, heap >>

\* a caller's call takes its next step: it reads and writes its locals and
\* the memory at the addresses they hold, reads entities.AllowedMimeTypes,
\* which nothing in the two functions assigns to, and writes to the logger
ConcStep(p) ==
    /\ ~Returned(procs[p]) /\ procs[p].pc # "idle"
    /\ LET s == CallStepOf(procs[p], heap) IN
        /\ procs' = [procs EXCEPT ![p] = s.l]
        /\ heap' = s.heap
    /\ logged' = logged + StepLogs(procs[p])
    /\ allowed' = allowed

\* a caller is done with the results of its call: nothing holds the
\* address of the call's buffer any more, and the memory is free again
ConcReturn(p) ==
    /\ Returned(procs[p])
    /\ procs' = [procs EXCEPT ![p] = IdleCall]
    /\ heap' = [a \in Addrs |-> IF a = procs[p].buf THEN FreeCell ELSE heap[a]]
    /\ UNCHANGED << allowed, logged >>

\* what the calls running at the same time leave alone
concOthers == << pc, archiveSide, cfgVars, sendVars, hostVars, mailHttpVars >>

CallersCall == (\E p \in Callers : ConcCall(p)) /\ UNCHANGED concOthers
CallersStep == (\E p \in Callers : ConcStep(p)) /\ UNCHANGED concOthers
CallersReturn == (\E p \in Callers : ConcReturn(p)) /\ UNCHANGED concOthers

NextConcurrent ==
    \/ CallersCall
    \/ CallersStep
    \/ CallersReturn

SpecConcurrent == Init /\ [][NextConcurrent]_vars

-----------------------------------------------------------------------------

\* the caller is done with the results of a call
Return ==
    /\ pc \in {"fd", "fdet_done", "b_done", "b_failed", "i_done", "i_failed",
              "s_done", "s_failed", "h_done", "m_done", "c_done", "c_failed",
              "r_done", "r_failed", "ms_done", "ms_failed", "mh_done"}
    /\ stack = <<>>
    /\ pc' = "idle"
    /\ rec' = FileData(<<>>, <<>>, "")
    /\ recIn' = FileData(<<>>, <<>>, "")
    /\ recFirst' = FileData(<<>>, <<>>, "")
    /\ vres' = <<>>
    /\ writes' = 0
    /\ fdet' = FileDetails(<<>>, Small(0), "")
    /\ fdetIn' = FileDetails(<<>>, Small(0), "")
    /\ fdres' = "none"
    /\ files' = <<>>
    /\ input' = <<>>
    /\ bi' = 0
    /\ buf' = <<>>
    /\ wdir' = <<>>
    /\ wstate' = "none"
    /\ closes' = 0
    /\ bret' = "none"
    /\ berr' = NoErr
    /\ file' = NilFile
    /\ filename' = <<>>
    /\ reader' = <<>>
    /\ ii' = 0
    /\ info' = NoInfo
    /\ seen' = 0
    /\ iret' = "none"
    /\ ierr' = NoErr
    /\ stack' = <<>>
    /\ sfiles' = <<>>
    /\ sinput' = <<>>
    /\ sname' = <<>>
    /\ sfile' = NilFile
    /\ sret' = "none"
    /\ sout' = FileData(<<>>, <<>>, "")
    /\ serr' = NoErr
    /\ hreq' = NoRequest
    /\ hstatus' = 0
    /\ att' = NoAttachment
    /\ mres' = NoVerdicts
    /\ csrc' = NoSource
    /\ cfg' = NoConfig
    /\ cret' = "none"
    /\ cerr' = NoErr
    /\ rmail' = NoMail
    /\ rmerr' = NoErr
    /\ sent' = 0
    /\ smail' = NoServiceMail
    /\ smerr' = NoErr
    /\ mhreq' = NoMailRequest
    /\ mhstatus' = 0
    /\ UNCHANGED << concVars, hostVars >>

Next ==
    \/ FDCall
    \/ FDValidate
    \/ FDetCall
    \/ FDetValidate
    \/ BuildCall
    \/ BuildCheckEmpty
    \/ BuildValidate
    \/ BuildOpen
    \/ BuildWrite
    \/ BuildDeferredClose
    \/ InspectCall
    \/ InspectBuilt
    \/ InspectRead
    \/ InspectParse
    \/ InspectWalk
    \/ InspectTotals
    \/ InspectValidate
    \/ ServiceCreateCall
    \/ ServiceCreateAdmit
    \/ ServiceCreateReturn
    \/ ServiceInfoCall
    \/ ServiceInfoStart
    \/ ServiceInfoReturn
    \/ CreateArchiveRequest
    \/ CreateArchiveProcess
    \/ CreateArchiveRespond
    \/ GetInformationRequest
    \/ GetInformationProcess
    \/ GetInformationRespond
    \/ MailTypeCall
    \/ MailTypeCheck
    \/ LoadConfigCall
    \/ LoadConfigInitialize
    \/ LoadConfigUnmarshal
    \/ LoadConfigValidate
    \/ MailSendCall
    \/ MailSendValidate
    \/ MailSendTransmit
    \/ MailServiceCall
    \/ MailServiceValidate
    \/ MailServiceReturn
    \/ MailHandlerRequest
    \/ MailHandlerProcess
    \/ MailHandlerRespond
    \/ Return

Spec == Init /\ [][Next]_vars

-----------------------------------------------------------------------------
(* Properties of CreateZipArchive and of the round trip.                   *)

\* the positions of a CreateZipArchive call
BuildPcs == {"b_start", "b_validate", "b_open", "b_write", "b_defer",
             "b_done", "b_failed"}

\* the positions of a GetArchiveInfo call
InspectPcs == {"i_start", "i_parse", "i_walk", "i_totals", "i_validate",
               "i_done", "i_failed"}

\* record i of the list handed in fails FileData.Validate
InvalidAt(i) == FileDataValidate(input[i]).err # "nil"

\* C1: atomic build.  While CreateZipArchive runs on a list that holds an
\* invalid record, and when it has failed on it, no writer exists, the
\* buffer holds nothing and no buffer is returned: all records are validated
\* before any entry is written.  The call fails with the failure of the
\* first invalid record in input order, wrapped with that record's name.
Thm_C1_AtomicBuild ==
    (pc \in BuildPcs /\ \E i \in 1..Len(input) : InvalidAt(i)) =>
        /\ wstate = "none"
        /\ buf = <<>>
        /\ wdir = <<>>
        /\ closes = 0
        /\ bret # "buf"
        /\ pc \in {"b_start", "b_validate", "b_failed"}
        /\ pc = "b_failed" =>
            LET k == CHOOSE i \in 1..Len(input) :
                        InvalidAt(i) /\ \A j \in 1..(i - 1) : ~InvalidAt(j)
            IN /\ bret = "nil"
               /\ berr = Err("invalid file", input[k].Name,
                             FileDataValidate(input[k]).err)

\* a build of [valid, invalid, valid] has failed on the second record
Wit_C1_ValidInvalidValid ==
    /\ pc = "b_failed"
    /\ Len(input) = 3
    /\ ~InvalidAt(1) /\ InvalidAt(2) /\ ~InvalidAt(3)
    /\ berr.kind = "invalid file"
    /\ berr.name = input[2].Name
    /\ files[1] # input[1]

\* a GetArchiveInfo call on the bytes of a successful CreateZipArchive has
\* returned
RoundTripOver ==
    /\ pc \in {"i_done", "i_failed"}
    /\ bret = "buf"
    /\ filename # <<>>

\* the inventory has one entry per record handed to CreateZipArchive, in
\* input order, with the cleaned name and the content's length
EntriesMatchInput ==
    /\ iret = "info"
    /\ ierr = NoErr
    /\ Len(info.Files) = Len(input)
    /\ \A i \in 1..Len(input) :
        /\ info.Files[i].FilePath = Clean(input[i].Name)
        /\ info.Files[i].Size = I64(0, Len(input[i].Content))

\* C2: for every non-empty list of valid records,
\* CreateZipArchive succeeds and GetArchiveInfo of its bytes, under a
\* non-empty name, yields one entry per record, in order, with the cleaned
\* name and the content's length.
Cex_C2_RoundTripOfValidRecords ==
    /\ (pc \in BuildPcs /\ Len(input) > 0 /\ \A i \in 1..Len(input) : ~InvalidAt(i))
          => pc # "b_failed"
    /\ RoundTripOver => EntriesMatchInput

-----------------------------------------------------------------------------
(* Properties of GetArchiveInfo.                                           *)

RECURSIVE HiSum(_, _)
\* the sum, as an integer, of the top parts of the sizes of fs[i..]
HiSum(fs, i) == IF i > Len(fs) THEN 0 ELSE fs[i].Size.hi + HiSum(fs, i + 1)

RECURSIVE LoSum(_, _)
\* the sum, as an integer, of the low parts of the sizes of fs[i..]
LoSum(fs, i) == IF i > Len(fs) THEN 0 ELSE fs[i].Size.lo + LoSum(fs, i + 1)

\* C3: totals invariant.  Every inventory a successful GetArchiveInfo
\* returns has TotalFiles = the number of its entries and TotalSize = the
\* sum of its entries' sizes (HiSum * 2^61 + LoSum, each entry counted
\* once), and the totals stand computed from the entries when the
\* inventory-level validation starts.
Cex_C3_TotalsAreSums ==
    (pc = "i_validate" \/ iret = "info") =>
        /\ info.TotalFiles = Len(info.Files)
        /\ info.TotalSize.lo = LoSum(info.Files, 1)
        /\ iret = "info" => info.TotalSize.hi = HiSum(info.Files, 1)

\* a GetArchiveInfo call on non-empty bytes
InspectingBytes ==
    pc \in InspectPcs /\ ~file.isNil /\ ~file.readFails /\ Len(file.bytes) > 0

\* raw holds a central directory a reader accepts: its last end record, at
\* e, gives a directory size no larger than what precedes it; the directory
\* starts that many tokens before e, or, when size and offset leave room
\* before the archive and a header stands at the offset, at the offset; and
\* the headers that stand there in a row are as many as the end record
\* says
WellFormedContainer(raw) ==
    \E e \in 1..Len(raw) :
        /\ raw[e].kind = "eocd"
        /\ \A j \in (e + 1)..Len(raw) : raw[j].kind # "eocd"
        /\ raw[e].size <= e - 1
        /\ \E s \in 0..(e - 1) :
            /\ LET atOffset == /\ raw[e].size + raw[e].offset < e - 1
                               /\ raw[raw[e].offset + 1].kind = "cdir"
               IN s = IF atOffset THEN raw[e].offset ELSE (e - 1) - raw[e].size
            /\ s + raw[e].records < e
            /\ \A j \in (s + 1)..(s + raw[e].records) : raw[j].kind = "cdir"
            /\ raw[s + raw[e].records + 1].kind # "cdir"

\* C4: corruption detection.  On non-empty bytes that do not parse as a
\* container GetArchiveInfo never gets past the zip reader: no ArchiveInfo
\* is made, no directory record is processed, nothing but nil is returned,
\* and the call fails with ErrInvalidZip.
Thm_C4_CorruptionDetected ==
    (InspectingBytes /\ ~WellFormedContainer(file.bytes)) =>
        /\ pc \in {"i_start", "i_parse", "i_failed"}
        /\ info = NoInfo
        /\ reader = <<>>
        /\ seen = 0
        /\ iret # "info"
        /\ pc = "i_failed" =>
            /\ iret = "nil"
            /\ ierr = Err("ErrInvalidZip", <<>>, "nil")

\* GetArchiveInfo has failed on bytes that hold a directory header and an
\* end record that counts two
Wit_C4_CountMismatch ==
    /\ pc = "i_failed"
    /\ ~file.isNil
    /\ Len(file.bytes) = 2
    /\ file.bytes[1].kind = "cdir"
    /\ file.bytes[2].kind = "eocd"
    /\ ierr.kind = "ErrInvalidZip"

\* C5: empty-input rejection.  GetArchiveInfo on a file of zero bytes,
\* under any filename, fails with ErrEmptyFile at its first check, and
\* CreateZipArchive on an empty list fails with ErrEmptyFilesList at its
\* first check: no other step runs and nil is returned.
Thm_C5_EmptyInputRejected ==
    /\ (pc \in InspectPcs /\ ~file.isNil /\ ~file.readFails /\ Len(file.bytes) = 0) =>
        /\ pc \in {"i_start", "i_failed"}
        /\ info = NoInfo /\ reader = <<>> /\ seen = 0
        /\ iret # "info"
        /\ pc = "i_failed" =>
            /\ iret = "nil"
            /\ ierr = Err("ErrEmptyFile", <<>>, "nil")
    /\ (pc \in BuildPcs /\ Len(input) = 0) =>
        /\ pc \in {"b_start", "b_failed"}
        /\ wstate = "none" /\ buf = <<>> /\ bi = 0
        /\ bret # "buf"
        /\ pc = "b_failed" =>
            /\ bret = "nil"
            /\ berr = Err("ErrEmptyFilesList", <<>>, "nil")

\* GetArchiveInfo has failed on zero bytes handed in under the empty
\* filename
Wit_C5_EmptyBytesEmptyName ==
    /\ pc = "i_failed"
    /\ ~file.isNil
    /\ file.bytes = <<>>
    /\ filename = <<>>
    /\ ierr.kind = "ErrEmptyFile"

\* the directory records among reader[1..n] that are no directory markers
NonDirs(n) == {j \in 1..n : ~IsDir(reader[j])}

\* C6 as claimed: when the container parses and no record survives the
\* walk, GetArchiveInfo fails with ErrEmptyFiles; no inventory without
\* entries is returned.
Cex_C6_EmptyWalkIsErrEmptyFiles ==
    /\ iret = "info" => Len(info.Files) > 0
    /\ (pc = "i_failed" /\ ierr.kind = "invalid archive info" /\ Len(info.Files) = 0)
          => ierr.cause = "ErrEmptyFiles"

\* C6, amended: GetArchiveInfo never returns an inventory with zero
\* entries.  When the container parses and no record survives the walk it
\* fails: with ErrEmptyFiles if the filename is non-empty, with
\* ErrEmptyFilename (the check ArchiveInfo.Validate makes first) if it is
\* empty.  Every entry of the inventory comes from a directory record that
\* is no directory marker, so a container of directory markers alone ends
\* the walk with no entry.
Thm_C6_NoEmptyInventory ==
    /\ iret = "info" => Len(info.Files) > 0
    /\ (pc \in {"i_done", "i_failed"} /\ ierr.kind \in {"nil", "invalid archive info"}
           /\ Len(info.Files) = 0) =>
        /\ pc = "i_failed"
        /\ iret = "nil"
        /\ ierr.cause = IF filename = <<>> THEN "ErrEmptyFilename" ELSE "ErrEmptyFiles"
    /\ pc \in {"i_walk", "i_totals", "i_validate", "i_done", "i_failed"} =>
        /\ Len(info.Files) <= Cardinality(NonDirs(seen))
        /\ \A k \in 1..Len(info.Files) :
              \E j \in NonDirs(seen) :
                  /\ info.Files[k].FilePath = Clean(reader[j].name)
                  /\ info.Files[k].Size = reader[j].size

\* GetArchiveInfo has failed with ErrEmptyFiles on a container of two
\* directory markers, one by name and one by attributes
Wit_C6_OnlyDirectories ==
    /\ pc = "i_failed"
    /\ Len(reader) = 2
    /\ HasSlashSuffix(reader[1].name)
    /\ reader[2].dir
    /\ ierr = Err("invalid archive info", <<>>, "ErrEmptyFiles")

-----------------------------------------------------------------------------
(* Properties of the entities' Validate methods.                           *)

\* C7: the result of FileData.Validate on a record: ErrEmptyFilename if the
\* name is empty; otherwise ErrContentRequired if the content is empty;
\* otherwise nil if MIMEType is set; otherwise nil, with MIMEType set to the
\* type of the name's extension, if the table has one (report.pdf gets
\* application/pdf); otherwise ErrInvalidMimeType (x.unknownext).
Thm_C7_FileDataValidateResult ==
    (pc = "fd" /\ Len(vres) >= 1) =>
        LET r == recIn
            e == vres[1]
            named == r.Name # <<>>
            filled == Len(r.Content) > 0
            typed == r.MIMEType # ""
            byExt == TypeByExtension(Ext(r.Name))
        IN /\ ~named => e = "ErrEmptyFilename"
           /\ (named /\ ~filled) => e = "ErrContentRequired"
           /\ (named /\ filled /\ typed) => (e = "nil" /\ recFirst = r)
           /\ (named /\ filled /\ ~typed /\ byExt # "") =>
                 (e = "nil" /\ recFirst = [r EXCEPT !.MIMEType = byExt])
           /\ (named /\ filled /\ ~typed /\ byExt = "") => e = "ErrInvalidMimeType"
           /\ (r.Name = NameReportPdf /\ filled /\ ~typed) =>
                 (e = "nil" /\ recFirst.MIMEType = "application/pdf")
           /\ (r.Name = NameUnknownExt /\ filled /\ ~typed) => e = "ErrInvalidMimeType"
           /\ (r.Name = NameDotInDir /\ filled /\ ~typed) => e = "ErrInvalidMimeType"

\* report.pdf, handed in without a type, has been validated and has the
\* PDF type
Wit_C7_ReportPdfDerived ==
    /\ pc = "fd"
    /\ Len(vres) = 1
    /\ recIn.Name = NameReportPdf
    /\ recIn.MIMEType = ""
    /\ vres[1] = "nil"
    /\ rec.MIMEType = "application/pdf"

\* C8: FileData.Validate never changes Name or Content; it changes
\* MIMEType only when MIMEType was empty and a type was derived from the
\* extension, and then returns nil; when it returns an error the record is
\* as it was.  Stated of every Validate call on the one record and of every
\* Validate call of CreateZipArchive's loop.
Thm_C8_ValidateFrame ==
    [][ /\ (pc = "fd" /\ pc' = "fd" /\ vres' # vres) =>
            /\ rec'.Name = rec.Name
            /\ rec'.Content = rec.Content
            /\ rec'.MIMEType # rec.MIMEType =>
                /\ rec.MIMEType = ""
                /\ rec'.MIMEType = TypeByExtension(Ext(rec.Name))
                /\ vres'[Len(vres')] = "nil"
            /\ vres'[Len(vres')] # "nil" => rec' = rec
        /\ (pc = "b_validate") =>
            /\ Len(files') = Len(files)
            /\ \A i \in 1..Len(files) :
                /\ files'[i].Name = files[i].Name
                /\ files'[i].Content = files[i].Content
                /\ files'[i].MIMEType # files[i].MIMEType =>
                    /\ i = bi
                    /\ files[i].MIMEType = ""
                    /\ files'[i].MIMEType = TypeByExtension(Ext(files[i].Name))
                    /\ pc' # "b_failed"
            /\ pc' = "b_failed" => files' = files
      ]_vars

\* a Validate call has filled in the type of a record, and a later one has
\* failed on nothing: the record differs from the one handed in only in its
\* MIMEType
Wit_C8_TypeFilledIn ==
    /\ pc = "fd"
    /\ Len(vres) = 2
    /\ rec.MIMEType # recIn.MIMEType
    /\ rec.Name = recIn.Name
    /\ rec.Content = recIn.Content

\* C9: once FileData.Validate has returned nil for a record, every later
\* Validate call on it returns nil and leaves it as the first call left it,
\* and MIMEType has been written at most once.
Thm_C9_ValidatedRecordIsStable ==
    (pc = "fd" /\ Len(vres) >= 1 /\ vres[1] = "nil") =>
        /\ \A k \in 1..Len(vres) : vres[k] = "nil"
        /\ rec = recFirst
        /\ writes <= 1
        /\ writes = 1 <=> recFirst.MIMEType # recIn.MIMEType

\* a record whose type was derived has been validated three times
Wit_C9_ValidatedThrice ==
    /\ pc = "fd"
    /\ Len(vres) = 3
    /\ vres[1] = "nil"
    /\ writes = 1
    /\ recIn.MIMEType = ""

\* C10: the result of FileDetails.Validate on a descriptor:
\* ErrFilepathRequired if the path is empty; otherwise ErrInvalidFileSize
\* if the size is negative; otherwise ErrInvalidMimeType if the type is
\* empty; otherwise nil.  The descriptor is left as it was.
Thm_C10_FileDetailsValidateResult ==
    pc = "fdet_done" =>
        LET d == fdetIn
            pathed == d.FilePath # <<>>
            negative == d.Size.hi < 0
        IN /\ ~pathed => fdres = "ErrFilepathRequired"
           /\ (pathed /\ negative) => fdres = "ErrInvalidFileSize: file size"
           /\ (pathed /\ ~negative /\ d.MimeType = "") => fdres = "ErrInvalidMimeType"
           /\ (pathed /\ ~negative /\ d.MimeType # "") => fdres = "nil"
           /\ fdet = fdetIn

\* a descriptor with a path, a negative size and no type has been refused
\* for its size
Wit_C10_NegativeSizeBeforeType ==
    /\ pc = "fdet_done"
    /\ fdetIn.FilePath # <<>>
    /\ fdetIn.Size.hi < 0
    /\ fdetIn.MimeType = ""
    /\ fdres = "ErrInvalidFileSize: file size"


-----------------------------------------------------------------------------
(* The walk over the directory records.                                    *)

\* the descriptor the walk makes of the directory record h
DetailsOf(h) == FileDetails(Clean(h.name), h.size, DetectMimeType(h.name))

\* a record that is no directory and whose descriptor passes Validate
ValidRecord(h) == ~IsDir(h) /\ FileDetailsValidate(DetailsOf(h)).err = "nil"

\* the descriptors of the valid records of hs, in the order of hs
KeptOf(hs) ==
    LET v == SelectSeq(hs, ValidRecord)
    IN [k \in 1..Len(v) |-> DetailsOf(v[k])]

\* C11: a record failing FileDetails.Validate is skipped and the walk goes
\* on to the next record: while walking, and after the walk, the entries
\* are exactly the descriptors of the valid non-directory records walked so
\* far, in the directory's order; the walk always reaches the last record;
\* and an invalid record never makes GetArchiveInfo fail: when a valid
\* record is there, a failure is the one of an empty filename or of a
\* negative total of the valid records' sizes, and with a filename and a
\* total that is not negative the inventory is returned.
Thm_C11_InvalidRecordSkipped ==
    /\ pc = "i_walk" => /\ ii = seen + 1
                        /\ info.Files = KeptOf(SubSeq(reader, 1, seen))
    /\ pc \in {"i_totals", "i_validate", "i_done"}
        => /\ seen = Len(reader)
           /\ info.Files = KeptOf(reader)
    /\ (pc = "i_failed" /\ KeptOf(reader) # <<>>)
        => /\ seen = Len(reader)
           /\ info.Files = KeptOf(reader)
           /\ ierr.kind = "invalid archive info"
           /\ ierr.cause \in {"ErrEmptyFilename", "ErrInvalidFileSize: total size"}
           /\ ierr.cause = "ErrEmptyFilename" <=> filename = <<>>
           /\ ierr.cause = "ErrInvalidFileSize: total size" => Neg64(info.TotalSize)
    /\ pc = "i_done"
        => /\ iret = "info"
           /\ \A k \in 1..Len(info.Files) :
                \E j \in 1..Len(reader) :
                    ValidRecord(reader[j]) /\ info.Files[k] = DetailsOf(reader[j])

\* an inventory of two entries from a directory of three records, the
\* second of which is a file of negative size
Wit_C11_InvalidBetweenValid ==
    /\ pc = "i_done"
    /\ Len(reader) = 3
    /\ ValidRecord(reader[1])
    /\ ~IsDir(reader[2]) /\ ~ValidRecord(reader[2])
    /\ ValidRecord(reader[3])
    /\ info.Files = <<DetailsOf(reader[1]), DetailsOf(reader[3])>>
    /\ reader[1] # reader[3]

-----------------------------------------------------------------------------
(* The entries of a built container.                                       *)

\* the local entry and the directory header of the record f
EntryOf(f) == Local(Clean(f.Name), f.Content)
HeaderOf(f) == CDir(Clean(f.Name), Small(Len(f.Content)), FALSE)

\* C12: when CreateZipArchive succeeds on N records, the container holds
\* exactly N entries, the i-th made of the i-th record as it was passed:
\* the path is the record's name cleaned as GetArchiveInfo cleans it (so
\* reading it back cleans it to itself), the data is the record's content;
\* nothing is reordered, merged or dropped, also not for records whose
\* names clean to the same path.
Thm_C12_OneEntryPerRecord ==
    (bret = "buf" /\ pc \in {"b_defer", "b_done"})
        => /\ Len(wdir) = Len(input)
           /\ \A i \in 1..Len(input) :
                /\ buf[i] = EntryOf(input[i])
                /\ wdir[i] = HeaderOf(input[i])
                /\ DetailsOf(wdir[i]).FilePath = buf[i].name
           /\ pc = "b_defer" => Len(buf) = Len(input)
           /\ pc = "b_done" =>
                buf = [i \in 1..Len(input) |-> EntryOf(input[i])]
                      \o [i \in 1..Len(input) |-> HeaderOf(input[i])]
                      \o <<EOCD(Len(input), Len(input), Len(input))>>

\* a container of three entries, the first two of different records under
\* the same path, the third under a name that cleaning changed
Wit_C12_SamePathTwice ==
    /\ pc = "b_done"
    /\ Len(input) = 3
    /\ input[1] # input[2]
    /\ buf[1].name = buf[2].name
    /\ buf[1].data # buf[2].data
    /\ buf[3].name # input[3].Name
    /\ buf[3].data = input[3].Content

-----------------------------------------------------------------------------
(* The deferred Close.  The writer is made over a new bytes.Buffer (lines   *)
(* 129-130) and closed once; a write to a bytes.Buffer returns no error,   *)
(* so Close returns nil, having written the directory and the end record,  *)
(* and the branch of lines 133-137 that logs its error is never taken.     *)

\* C13: CreateZipArchive hands its caller the buffer with a nil error only
\* after the writer's Close has run to its end without an error: the
\* writer is closed, once, and the buffer ends with the central directory
\* of every entry and the end record that counts them.  While the results
\* say success and Close has not run, the call has not returned.
Thm_C13_SuccessOnlyAfterCleanClose ==
    /\ pc = "b_done" => bret = "buf" /\ berr = NoErr
    /\ bret = "buf" =>
        IF wstate = "closed"
           THEN /\ closes = 1
                /\ Len(wdir) = Len(input)
                /\ Len(buf) = 2 * Len(wdir) + 1
                /\ SubSeq(buf, Len(wdir) + 1, 2 * Len(wdir)) = wdir
                /\ buf[Len(buf)] = EOCD(Len(wdir), Len(wdir), Len(wdir))
           ELSE pc = "b_defer" /\ wstate = "open"

\* the caller has the buffer of two entries, their directory and the end
\* record, the writer closed
Wit_C13_ClosedBeforeSuccess ==
    /\ pc = "b_done"
    /\ bret = "buf"
    /\ wstate = "closed"
    /\ Len(wdir) = 2
    /\ Len(buf) = 5
    /\ buf[5].kind = "eocd"

-----------------------------------------------------------------------------
(* The writer's life in CreateZipArchive.                                  *)

\* C14: once CreateZipArchive has made the writer, Close runs on it exactly
\* once on every way out, and before the caller has the results: after the
\* last entry when all were written, and after a failed addFileToZip, when
\* the error names the record that failed and no later record has an
\* entry.  Only the failures before the writer exists end with no Close.
Thm_C14_WriterClosedOnce ==
    /\ closes \in {0, 1}
    /\ closes = 1 <=> wstate = "closed"
    /\ wstate = "open" => pc \in {"b_write", "b_defer"}
    /\ pc \in {"b_start", "b_validate", "b_open"} => wstate = "none"
    /\ pc = "b_done" => wstate = "closed"
    /\ pc = "b_failed" =>
        IF berr.kind = "failed to add file"
           THEN /\ wstate = "closed"
                /\ bret = "nil"
                /\ berr.name = input[bi].Name
                /\ HasSlashSuffix(Clean(input[bi].Name))
                /\ Len(wdir) = bi
                /\ \A k \in 1..(bi - 1) : wdir[k] = HeaderOf(input[k])
                /\ \A k \in 1..Len(buf) :
                     buf[k].kind = "local" => k <= bi
           ELSE /\ wstate = "none"
                /\ berr.kind \in {"ErrEmptyFilesList", "invalid file"}
                /\ buf = <<>>

\* a list of three whose second record cannot be written: the writer is
\* closed, the third record was never written
Wit_C14_ClosedAfterFailedWrite ==
    /\ pc = "b_failed"
    /\ berr.kind = "failed to add file"
    /\ Len(input) = 3
    /\ bi = 2
    /\ closes = 1
    /\ buf[Len(buf)].kind = "eocd"

-----------------------------------------------------------------------------
(* The steps of CreateZipArchive.                                          *)

\* the steps a call at position p, index i, of n records has left at most
BuildRank(p, i, n) ==
    CASE p = "b_start" -> 2 * n + 3
      [] p = "b_validate" -> 2 * n + 3 - i
      [] p = "b_open" -> n + 2
      [] p = "b_write" -> n + 2 - i
      [] p = "b_defer" -> 1
      [] OTHER -> 0

\* the step of the call's position can be taken: its guard is the position
\* alone, and the record it works on is one of the list
BuildStepReady ==
    /\ pc \in {"b_validate", "b_write"} => bi \in 1..Len(files)
    /\ pc = "b_start" => bi = 0 /\ bret = "none"
    /\ pc = "b_defer" => bret \in {"buf", "nil"}

\* Start, Validating, Writing, Finalizing as positions of the call
BuildStepOrder ==
    /\ pc = "b_start" => pc' \in {"b_validate", "b_failed"}
    /\ pc = "b_validate" =>
        \/ pc' = "b_validate" /\ bi' = bi + 1 /\ bret' = "none"
        \/ pc' = "b_open" /\ bi = Len(files) /\ bret' = "none"
        \/ pc' = "b_failed" /\ bi' = bi /\ bret' = "nil" /\ buf' = <<>>
    /\ pc = "b_open" => pc' = "b_write" /\ bi' = 1
    /\ pc = "b_write" =>
        \/ pc' = "b_write" /\ bi' = bi + 1 /\ bret' = "none"
        \/ pc' = "b_defer" /\ bi = Len(files) /\ bret' = "buf"
        \/ pc' = "b_defer" /\ bret' = "nil"
    /\ pc = "b_defer" =>
        /\ pc' = IF bret = "buf" THEN "b_done" ELSE "b_failed"
        /\ files' = files /\ wdir' = wdir /\ bret' = bret
    /\ pc \in {"b_done", "b_failed"} =>
        pc' \notin {"b_start", "b_validate", "b_open", "b_write", "b_defer"}
    /\ pc \in {"b_start", "b_validate", "b_open", "b_write", "b_defer"} =>
        /\ pc' \in BuildPcs
        /\ BuildRank(pc', bi', Len(files')) < BuildRank(pc, bi, Len(files))

\* C15: a call of CreateZipArchive goes from Start through Validating
\* (records 1..N in turn), Writing (entries 1..N in turn) and Finalizing to
\* Done, or to Failed at the first validation or write failure, after
\* which no record is validated or written; it always ends in Done or
\* Failed (before either, the next step can be taken, and every step
\* lowers the count of the steps left); no entry is written before every record was
\* accepted, and Done comes only after all N entries.
Thm_C15_BuildStateMachine ==
    /\ [][BuildStepOrder]_vars
    /\ [](bret = "nil" => pc \notin {"b_validate", "b_open", "b_write"})
    /\ [](pc \in {"b_open", "b_write", "b_defer", "b_done"} =>
            \A i \in 1..Len(files) :
                /\ FileDataValidate(input[i]).err = "nil"
                /\ files[i] = FileDataValidate(input[i]).f)
    /\ [](pc \in {"b_start", "b_validate"} => buf = <<>> /\ wdir = <<>>)
    /\ [](pc = "b_done" => Len(wdir) = Len(input) /\ Len(input) > 0)
    /\ [](pc \in {"b_start", "b_validate", "b_open", "b_write", "b_defer"} =>
            /\ BuildStepReady
            /\ BuildRank(pc, bi, Len(files)) \in 1..(2 * Len(files) + 3))

\* a call that went through every position with three records
Wit_C15_ThreeWrittenThenDone ==
    /\ pc = "b_done"
    /\ Len(input) = 3
    /\ bi = 3
    /\ Len(wdir) = 3
    /\ closes = 1

-----------------------------------------------------------------------------
(* The size ceilings of the upload boundary.                               *)

\* whether a call made by f is waiting for the call in progress
InStack(f) == \E k \in 1..Len(stack) : stack[k] = f

\* the repository's GetArchiveInfo / CreateZipArchive is running for the
\* handler's GetInformation / CreateArchive
InspectCalledByEndpoint == pc \in InspectPcs /\ InStack("hi_wait")
BuildCalledByEndpoint == pc \in BuildPcs /\ InStack("hb_wait")

RECURSIVE PartsSize(_)
\* the sizes of the parts ps, added up
PartsSize(ps) == IF ps = <<>> THEN 0 ELSE Head(ps).Size + PartsSize(Tail(ps))

\* C16: GetInformation never has GetArchiveInfo run on a file of more than
\* maxFileSize (10 MiB) bytes, and CreateArchive never has CreateZipArchive
\* run when one of the uploaded files has more than maxFileSize bytes or
\* all of them together have more than maxTotalSize (50 MiB).
Cex_C16_CeilingsBeforeCore ==
    /\ InspectCalledByEndpoint =>
        /\ hreq.file[1].Size <= maxFileSize
        /\ ByteLen(file.bytes) <= maxFileSize
    /\ BuildCalledByEndpoint =>
        /\ \A k \in 1..Len(hreq.files) : hreq.files[k].Size <= maxFileSize
        /\ PartsSize(hreq.files) <= maxTotalSize

-----------------------------------------------------------------------------
(* The statuses of the inspect endpoint.                                   *)

\* C17: when GetArchiveInfo fails with ErrEmptyFile (an upload of no bytes)
\* or with ErrInvalidZip (bytes that are no container), GetInformation
\* answers with a status from 400 to 499, never one from 500 to 599.
Cex_C17_CallerErrorsAre4xx ==
    (pc = "h_done" /\ hreq \in InfoRequests
     /\ ierr.kind \in {"ErrEmptyFile", "ErrInvalidZip"})
        => hstatus \in 400..499

-----------------------------------------------------------------------------
(* The admission gate of the archive service.                              *)

\* why the service refuses the record f, "nil" if it does not
Refusal(f) ==
    IF f = NilRecord THEN "file cannot be nil"
    ELSE IF FileDataValidate(f).err # "nil" THEN "invalid file"
    ELSE IF FileDataValidate(f).f.MIMEType \notin AllowedMimeTypes
        THEN "services.ErrInvalidMimeType"
    ELSE "nil"

\* the index of the first record of fs the service refuses, 0 if none
FirstRefused(fs) ==
    IF \A i \in 1..Len(fs) : Refusal(fs[i]) = "nil" THEN 0
    ELSE CHOOSE i \in 1..Len(fs) :
            /\ Refusal(fs[i]) # "nil"
            /\ \A j \in 1..(i - 1) : Refusal(fs[j]) = "nil"

\* the service's CreateZipArchive has returned an error
ServiceCreateFailed ==
    /\ pc = "s_failed"
    /\ serr.kind \in {"services.ErrEmptyFilesList", "file cannot be nil",
                      "invalid file", "services.ErrInvalidMimeType",
                      "failed to create zip archive", "invalid archive file"}

\* C18: the service's CreateZipArchive calls the repository's only on a
\* list that is not empty and holds no nil record, no record failing
\* FileData.Validate and no valid record of a type outside
\* AllowedMimeTypes; otherwise the repository is not touched and the error
\* is the one of the first such record of the list as handed in: "file
\* cannot be nil", "invalid file <name>: <Validate's error>", or, for a
\* valid record of a type not allowed, the service's ErrInvalidMimeType
\* with the type.
Thm_C18_AdmissionGate ==
    /\ (pc \in BuildPcs /\ InStack("sb_wait"))
        => /\ sinput # <<>>
           /\ FirstRefused(sinput) = 0
           /\ input = [i \in 1..Len(sinput) |-> FileDataValidate(sinput[i]).f]
    /\ ServiceCreateFailed
        => IF sinput = <<>>
              THEN serr.kind = "services.ErrEmptyFilesList" /\ bret = "none"
           ELSE IF FirstRefused(sinput) = 0
              THEN serr.kind = "failed to create zip archive" /\ bret = "nil"
           ELSE LET f == sinput[FirstRefused(sinput)] IN
                /\ bret = "none" /\ files = <<>> /\ buf = <<>>
                /\ serr.kind = Refusal(f)
                /\ serr.kind = "invalid file"
                    => /\ serr.name = f.Name
                       /\ serr.cause = FileDataValidate(f).err
                /\ serr.kind = "services.ErrInvalidMimeType"
                    => serr.cause = FileDataValidate(f).f.MIMEType
    /\ (pc = "s_done" /\ sret = "file")
        => FirstRefused(sinput) = 0 /\ sinput # <<>> /\ bret = "buf"

\* a list of an allowed record, a valid record of a type not allowed and a
\* record with no name: the error is the second record's
\* ErrInvalidMimeType, and the repository was not called
Wit_C18_TypeGateBeforeLaterInvalid ==
    /\ pc = "s_failed"
    /\ Len(sinput) = 3
    /\ Refusal(sinput[1]) = "nil"
    /\ Refusal(sinput[2]) = "services.ErrInvalidMimeType"
    /\ Refusal(sinput[3]) = "invalid file"
    /\ serr = Err("services.ErrInvalidMimeType", <<>>, "text/plain")
    /\ bret = "none"

-----------------------------------------------------------------------------
(* The types admitted for mail and for archives.                           *)

\* C19: a well-formed file is admitted as a mail attachment
\* exactly when its type is in AllowedMimeTypes, which is when the archive
\* service's gate admits it.
Cex_C19_MailUsesAllowedMimeTypes ==
    (pc = "m_done" /\ att.MIMEType # "")
        => /\ mres.service = "nil" <=> att.MIMEType \in AllowedMimeTypes
           /\ mres.service = "nil" <=> mres.archive

-----------------------------------------------------------------------------
(* The ArchiveInfo that GetArchiveInfo returns.                            *)

\* the file of the call is a container the zip reader accepts
ReadableContainer ==
    /\ ~file.isNil
    /\ Len(file.bytes) > 0
    /\ ZipNewReader(file.bytes).err = "nil"

\* C20: an ArchiveInfo returned by GetArchiveInfo has the caller's
\* filename, which is not empty, the byte length of the file as its
\* ArchiveSize and at least one entry; a call with an empty filename on a
\* container the zip reader accepts returns no ArchiveInfo but
\* ErrEmptyFilename, whatever the container holds.
Thm_C20_ReturnedArchiveInfo ==
    /\ pc = "i_done" => iret = "info"
    /\ pc = "i_failed" => iret = "nil"
    /\ iret = "info"
        => /\ ierr = NoErr
           /\ filename # <<>>
           /\ info.Filename = filename
           /\ info.ArchiveSize.hi = 0
           /\ info.ArchiveSize.lo = ByteLen(file.bytes)
           /\ Len(info.Files) >= 1
    /\ (pc = "i_failed" /\ filename = <<>> /\ ReadableContainer)
        => /\ iret = "nil"
           /\ ierr = Err("invalid archive info", <<>>, "ErrEmptyFilename")

\* an ArchiveInfo of two entries returned for an upload named by the caller
Wit_C20_InfoOfTwoEntries ==
    /\ pc = "i_done"
    /\ stack = <<>>
    /\ iret = "info"
    /\ filename = NameZip
    /\ info.Filename = NameZip
    /\ info.ArchiveSize.lo = ByteLen(file.bytes)
    /\ Len(info.Files) = 2

-----------------------------------------------------------------------------
(* The int64 sum of CalculateTotals.                                       *)

\* x <= y on int64
Leq64(x, y) == x.hi < y.hi \/ (x.hi = y.hi /\ x.lo <= y.lo)

\* C26: the sum of the entries' sizes never wraps in a returned inventory:
\* for every ArchiveInfo GetArchiveInfo returns, TotalSize >= 0 and
\* TotalSize >= the size of each of its entries, whatever sizes the
\* directory records declare.
Cex_C26_TotalSizeNeverWraps ==
    iret = "info"
        => /\ ~Neg64(info.TotalSize)
           /\ \A k \in 1..Len(info.Files) :
                Leq64(info.Files[k].Size, info.TotalSize)

-----------------------------------------------------------------------------
(* Which records processZipFiles drops.                                    *)

\* a record that is no directory and declares a size that is not negative
NonNegRecord(h) == ~IsDir(h) /\ ~Neg64(h.size)

\* how many of hs[1..n] are such records
NonNegCount(hs, n) == Cardinality({k \in 1..n : NonNegRecord(hs[k])})

\* C24: processZipFiles drops a non-directory record only when its size is
\* negative.  filepath.Clean never returns the empty path and
\* detectMimeType never the empty type, so Validate refuses a descriptor
\* for its size alone; every non-directory record with size >= 0 is kept,
\* and TotalFiles is the number of such records.
Thm_C24_DroppedOnlyForNegativeSize ==
    /\ pc \in {"i_walk", "i_totals", "i_validate", "i_done"}
        => /\ \A k \in 1..Len(reader) :
                /\ Clean(reader[k].name) # <<>>
                /\ DetectMimeType(reader[k].name) # ""
                /\ FileDetailsValidate(DetailsOf(reader[k])).err
                        \in {"nil", "ErrInvalidFileSize: file size"}
           /\ \A k \in 1..seen :
                ValidRecord(reader[k]) <=> NonNegRecord(reader[k])
           /\ Len(info.Files) = NonNegCount(reader, seen)
    /\ pc \in {"i_validate", "i_done"}
        => info.TotalFiles = NonNegCount(reader, Len(reader))

\* a record with no name and no extension is kept as "." with the generic
\* binary type, next to a record dropped for its negative size
Wit_C24_NamelessKeptNegativeDropped ==
    /\ pc = "i_done"
    /\ Len(reader) = 3
    /\ \E k \in 1..3 : ~IsDir(reader[k]) /\ Neg64(reader[k].size)
    /\ info.TotalFiles = 2
    /\ \E k \in 1..2 :
        /\ info.Files[k].FilePath = <<".">>
        /\ info.Files[k].MimeType = "application/octet-stream"

-----------------------------------------------------------------------------
(* The repository's CreateZipArchive under the service's.                  *)

\* the repository's CreateZipArchive is running for the service's
BuildCalledByService == pc \in BuildPcs /\ InStack("sb_wait")

\* the steps of the service's CreateZipArchive as to the archive name: an
\* empty name becomes archive.zip before the repository is called, and the
\* name stays while the repository runs
ArchiveNameKept ==
    /\ (pc = "sb_start" /\ pc' = "b_start")
        => sname' = IF sname = <<>> THEN ServiceDefaultName ELSE sname
    /\ BuildCalledByService => sname' = sname

\* C25: under the service's CreateZipArchive the repository's empty-list
\* check and its Validate loop never fail: the list the service admitted is
\* not empty and each of its records passes FileData.Validate again and is
\* left as it was.  After admission the service's call fails only with the
\* repository's "failed to add file" or with the Validate error of the
\* archive file; on success the file it returns has the archive name asked
\* for (archive.zip for an empty one), type application/zip and content.
Thm_C25_RepositoryChecksNeverFailUnderService ==
    /\ [][ArchiveNameKept]_vars
    /\ [](BuildCalledByService
            => /\ input # <<>>
               /\ files = input
               /\ \A i \in 1..Len(input) :
                    /\ FileDataValidate(input[i]).err = "nil"
                    /\ FileDataValidate(input[i]).f = input[i]
               /\ berr.kind \in {"nil", "failed to add file"})
    /\ []((ServiceCreateFailed /\ sinput # <<>> /\ FirstRefused(sinput) = 0)
            => \/ serr.kind = "failed to create zip archive"
                    /\ serr.cause = "failed to add file"
               \/ serr.kind = "invalid archive file")
    /\ []((pc = "s_done" /\ sret = "file")
            => /\ sout.Name = sname
               /\ sname # <<>>
               /\ sout.MIMEType = "application/zip"
               /\ sout.Content = buf
               /\ sout.Content # <<>>)

\* an admitted PNG named "/" makes the repository fail while writing, after
\* a record whose type the service's Validate filled in
Wit_C25_AdmittedListFailsWriting ==
    /\ pc = "s_failed"
    /\ Len(sinput) = 2
    /\ sinput[1] = FileData(NamePng, <<1>>, "")
    /\ sinput[2].Name = NameRoot
    /\ FirstRefused(sinput) = 0
    /\ input[1].MIMEType = "image/png"
    /\ serr = Err("failed to create zip archive", NameRoot, "failed to add file")

-----------------------------------------------------------------------------
(* The configurations LoadConfig accepts.                                  *)

\* the conditions on a configuration
AcceptableConfig(c) ==
    /\ c.App.Name # ""
    /\ c.App.Version # ""
    /\ c.Server.Port \in 1..65535
    /\ c.Env \in {"development", "production"}
    /\ c.Server.ShutdownTimeout > 0
    /\ c.Server.ReadTimeout > 0
    /\ c.Server.WriteTimeout > 0
    /\ c.Server.IdleTimeout > 0

\* C22: validateConfig accepts a configuration exactly when the app name
\* and the app version are not empty, the server port is in 1..65535, the
\* environment is "development" or "production" and the shutdown, read,
\* write and idle timeouts are all positive; when it rejects, LoadConfig
\* returns an error and no configuration.
Thm_C22_ValidateConfigAccepts ==
    /\ cfg # NoConfig
        => (validateConfig(cfg) = "nil" <=> AcceptableConfig(cfg))
    /\ pc = "c_done"
        => /\ cret = "config"
           /\ cerr = NoErr
           /\ AcceptableConfig(cfg)
    /\ pc = "c_failed" => cret = "nil" /\ cerr # NoErr
    /\ (pc \in {"c_done", "c_failed"} /\ cfg # NoConfig /\ ~AcceptableConfig(cfg))
        => /\ pc = "c_failed"
           /\ cret = "nil"
           /\ cerr = Err("config validation error", <<>>, validateConfig(cfg))

\* a configuration with nothing wrong but an idle timeout of 0 is rejected
Wit_C22_IdleTimeoutZeroRejected ==
    /\ pc = "c_failed"
    /\ cfg # NoConfig
    /\ cfg.Server.IdleTimeout = 0
    /\ AcceptableConfig([cfg EXCEPT !.Server.IdleTimeout = 1])
    /\ cfg.Server.Port = 65535
    /\ cret = "nil"
    /\ cerr.cause = "all server timeouts must be positive"

-----------------------------------------------------------------------------
(* What is checked before a mail is transmitted.                           *)

\* the first recipient of to that emailRegex does not match, 0 if none
FirstBadAddress(to) ==
    IF \A i \in 1..Len(to) : MatchEmail(to[i]) THEN 0
    ELSE CHOOSE i \in 1..Len(to) :
            /\ ~MatchEmail(to[i])
            /\ \A j \in 1..(i - 1) : MatchEmail(to[j])

\* which check of the repository's SendMail refuses the mail ml first
RepositoryRefusal(ml) ==
    IF ml.to = <<>> THEN "no recipients provided"
    ELSE IF FirstBadAddress(ml.to) # 0 THEN "invalid email format"
    ELSE IF ml.subject = "" THEN "ErrInvalidSubject"
    ELSE IF ml.file = NilRecord THEN "file is nil"
    ELSE IF FileDataValidate(ml.file).err # "nil" THEN "ErrInvalidFile"
    ELSE "nil"

\* which check of the service refuses the mail ml first
ServiceRefusal(ml) ==
    IF ml.to = <<>> THEN "services.ErrNoRecipients"
    ELSE IF ml.filename = <<>> THEN "filename is required"
    ELSE IF ml.content = <<>> THEN "file content is empty"
    ELSE IF ml.mimeType \notin {DocxType, "application/pdf"}
        THEN "services.ErrInvalidMimeType"
    ELSE "nil"

\* the repository's SendMail is running for the service's
SendCalledByService ==
    pc \in {"r_start", "r_transmit", "r_done", "r_failed"} /\ InStack("ms_wait")

\* C23: nothing is transmitted unless every check passed.  The
\* repository's SendMail calls smtp.SendMail only when the recipient list
\* is not empty, every address matches emailRegex, the subject is not
\* empty, the file is not nil and passes FileData.Validate; otherwise it
\* returns the error of the first of these checks that fails, and
\* smtp.SendMail is not called.  The service calls the repository only
\* when recipients, filename and content are not empty and the type is one
\* it supports; otherwise it returns the error of its first failing check
\* and the repository is not called.
Thm_C23_NothingSentUnlessChecked ==
    /\ sent \in {0, 1}
    /\ (sent = 1 \/ pc \in {"r_transmit", "r_done"})
        => RepositoryRefusal(rmail) = "nil"
    /\ (pc = "r_failed" /\ RepositoryRefusal(rmail) # "nil")
        => /\ sent = 0
           /\ \/ rmerr.cause = RepositoryRefusal(rmail)
              \/ rmerr.kind = RepositoryRefusal(rmail)
           /\ rmerr.cause = "invalid email format"
                => rmerr.name = rmail.to[FirstBadAddress(rmail.to)]
           /\ rmerr.kind = "ErrInvalidFile" /\ rmail.file # NilRecord
                => rmerr.cause = FileDataValidate(rmail.file).err
    /\ (pc = "r_failed" /\ RepositoryRefusal(rmail) = "nil")
        => sent = 1 /\ rmerr.kind = "ErrSMTPSendFailed"
    /\ pc = "r_done" => sent = 1 /\ rmerr = NoErr
    /\ SendCalledByService
        => /\ ServiceRefusal(smail) = "nil"
           /\ rmail.to = smail.to
           /\ rmail.subject = smail.subject
           /\ rmail.file.Name = smail.filename
           /\ rmail.file.Content = smail.content
           /\ rmail.file.MIMEType = smail.mimeType
    /\ (pc = "ms_failed" /\ ServiceRefusal(smail) # "nil")
        => /\ sent = 0
           /\ rmail = NoMail
           /\ \/ smerr.kind = ServiceRefusal(smail)
              \/ smerr.cause = ServiceRefusal(smail)
    /\ (pc = "ms_failed" /\ ServiceRefusal(smail) = "nil")
        => smerr.kind = "services.ErrMailSendFailed"
    /\ pc = "ms_done" => sent = 1 /\ ServiceRefusal(smail) = "nil"

\* a mail whose second address is malformed and whose subject is empty is
\* refused for the address, and nothing was transmitted
Wit_C23_SecondAddressDecides ==
    /\ pc = "r_failed"
    /\ Len(rmail.to) = 2
    /\ MatchEmail(rmail.to[1])
    /\ rmail.to[2] = AddrShortTld
    /\ rmail.subject = ""
    /\ rmerr = Err("ErrInvalidRecipients", AddrShortTld, "invalid email format")
    /\ sent = 0

-----------------------------------------------------------------------------
(* Calls running at the same time do not disturb each other.               *)

\* the locals as the call with the arguments a starts
StartOf(a) ==
    IF a.op = "inspect" THEN InspectOf(a.file, a.name)
    ELSE CreateOf(a.files, a.name)

\* a step writes no memory that a call other than the one taking the step
\* holds the address of
NoWriteToAnothersBuffer ==
    \A a \in Addrs :
        heap'[a] # heap[a]
            => \E p \in Callers :
                /\ procs'[p] # procs[p]
                /\ \A q \in Callers \ {p} : procs[q].buf # a /\ procs'[q].buf # a

\* C21: calls of GetArchiveInfo and CreateZipArchive running at the same
\* time on arguments of their own are independent: however their steps
\* interleave, each call in progress goes on to, and each returned call
\* has, the results the call returns when it runs alone on its arguments
\* in empty memory; no two calls hold the address of the same buffer and
\* no step of one call writes the buffer of another; and
\* entities.AllowedMimeTypes is never changed.
Thm_C21_CallsAreIndependent ==
    /\ [][NoWriteToAnothersBuffer]_vars
    /\ [](allowed = AllowedMimeTypes)
    /\ [](\A p, q \in Callers :
            (p # q /\ procs[p].buf # NilAddr) => procs[p].buf # procs[q].buf)
    /\ [](\A p \in Callers :
            procs[p].pc # "idle"
                => RunAlone(procs[p], heap) = RunAlone(StartOf(procs[p].args), EmptyHeap))

\* a CreateZipArchive writing the second entry into its buffer, which it
\* made while the other caller held a buffer at the first address; the
\* other caller has since dropped that, and its GetArchiveInfo, a record
\* skipped and logged, is at the end of its walk
Wit_C21_BuildAndInspectInProgress ==
    /\ procs[1].op = "create"
    /\ procs[1].pc = "b_write"
    /\ procs[1].bi = 2
    /\ procs[1].buf = 2
    /\ Len(heap[2].bytes) = 1
    /\ ~heap[1].live
    /\ procs[2].op = "inspect"
    /\ procs[2].pc = "i_walk"
    /\ procs[2].ii = 3
    /\ Len(procs[2].info.Files) = 1
    /\ logged = 1
=============================================================================
